---- MODULE Spec2Model ----
(***************************************************************************)
(* Task router and supervisor of agent_orchestrator:                       *)
(*   core/orchestration/orchestrator.py  (TaskQueue, Orchestrator)         *)
(*   core/orchestration/supervisor.py    (AgentSupervisor)                 *)
(*   core/workflows/models.py            (Task, TaskPriority, TaskStatus)  *)
(*   core/agents/definition.py           (AgentInstance, AgentStatus)      *)
(*   core/events/models.py               (TaskEvent)                       *)
(*                                                                         *)
(* Every coroutine of the router runs on one asyncio event loop and none   *)
(* of them suspends between its reads and its writes (asyncio.Queue.put on *)
(* an unbounded queue and get_nowait never suspend), so one call of a      *)
(* method, one iteration of the dispatch loop and one health sweep are one *)
(* atomic action each.  The Orchestrator is built with an event publisher; *)
(* `events` holds the events handed to it, per aggregate_id.  start() has  *)
(* been called on both components and stop() has not; of Task and          *)
(* AgentInstance the fields the router reads or the claims name are kept   *)
(* (not name, payload, result, error text or timestamps of a Task).        *)
(***************************************************************************)
EXTENDS Integers, Sequences, FiniteSets, TLC

\* ---------------------------------------------------------------- bounds
NumTasks == 2          \* Task objects submitted to the Orchestrator
NumInstances == 2      \* AgentInstance objects created by register_agent
MaxTime == 3           \* last reading of the wall clock
MaxRetries == 1        \* largest max_retries a submitted Task carries
QueueTasks == 3        \* Task objects put into a stand-alone TaskQueue
SupervisedTasks == 1   \* Task objects submitted while the supervisor runs
DispatchTasks == 2     \* Task objects submitted while the dispatch loop is fair
MaxToolRetries == 1    \* largest retry_count of a ToolConfig and max_retries of a ToolExecutor
MaxIterations == 2     \* largest max_iterations of the AgentConstraints
MaxTokensPerTask == 3  \* largest max_tokens_per_task of the AgentConstraints
MaxResponseTokens == 2 \* most tokens one LLM response accounts for
MaxToolCalls == 2      \* most tool calls in one LLM response
MaxSteps == 2          \* most top-level steps of a workflow definition
MaxExecutionTime == 2  \* largest execution_time_ms recorded at once
MaxRecorded == 2       \* most completions recorded on one AgentInstance
FindAgentTasks == 1    \* Task objects submitted while instance ids come in any order
NumWorkers == 2        \* worker processes of one kind
MaxConcurrency == 2    \* largest concurrency of an AgentWorker
PublishedTasks == 2    \* tasks published to the workers

\* ------------------------------------------------------------- constants
None == 0              \* Python None; every id is a positive integer

LOW == 0
NORMAL == 1
HIGH == 2
CRITICAL == 3
\* enum TaskPriority in definition order (the order `for p in TaskPriority`)
TaskPriority == <<LOW, NORMAL, HIGH, CRITICAL>>

PENDING == "pending"
QUEUED == "queued"
ASSIGNED == "assigned"
COMPLETED == "completed"
FAILED == "failed"
CANCELLED == "cancelled"
TIMEOUT == "timeout"
TaskStatus == {PENDING, QUEUED, ASSIGNED, "running", COMPLETED, FAILED, CANCELLED, TIMEOUT}

IDLE == "idle"
RUNNING == "running"
PAUSED == "paused"
ERROR == "error"
TERMINATED == "terminated"
AgentStatus == {IDLE, RUNNING, PAUSED, ERROR, TERMINATED}

\* WorkflowStatus shares "pending", "running", "paused", "completed", "failed"
\* and "cancelled" with the enums above
COMPENSATING == "compensating"
COMPENSATED == "compensated"
WorkflowStatus ==
    {PENDING, RUNNING, PAUSED, COMPLETED, FAILED, COMPENSATING, COMPENSATED, CANCELLED}

AGENT_TASK == "agent_task"
PARALLEL == "parallel"
CONDITIONAL == "conditional"
LOOP == "loop"
WAIT == "wait"
HUMAN_APPROVAL == "human_approval"
SUBPROCESS == "subprocess"
WorkflowStepType ==
    {AGENT_TASK, PARALLEL, CONDITIONAL, LOOP, WAIT, HUMAN_APPROVAL, SUBPROCESS}

\* AgentSupervisor(heartbeat_timeout=...), in clock ticks
heartbeat_timeout == 1

\* ----------------------------------------------------------------- state
VARIABLES
    tasks,              \* heap of Task objects: task_id -> fields
    instances,          \* heap of AgentInstance objects: instance_id -> fields
    queues,             \* TaskQueue._queues: priority -> FIFO of task ids
    pending_tasks,      \* Orchestrator._pending_tasks (its keys)
    agents,             \* Orchestrator._agents, in insertion order
    agent_definitions,  \* Orchestrator._agent_definitions: agent_id -> definition
    supervisor_agents,  \* AgentSupervisor._agents (its keys)
    events,             \* events handed to the event publisher: aggregate_id -> its events, in order
    now,                \* datetime.now(timezone.utc)
    got                 \* value returned by the last direct TaskQueue.get()

VARIABLES
    content,            \* _parse_text_tool_call: the content it is called with
    available_tools,    \* _parse_text_tool_call: the names it is called with
    text_tool_call      \* _parse_text_tool_call: the value it returned

VARIABLES
    registry,           \* ToolRegistry._tools: name -> the ToolConfig of the tool
    executor_max_retries,  \* ToolExecutor._max_retries
    invocations,        \* names of the tools whose execute() ran, in order, since the
                        \* last call of ToolExecutor.execute or of the LLM began
    tool_result         \* the last ToolResult of ToolExecutor.execute

VARIABLES
    constraints,        \* AgentDefinition.constraints of the AgentRuntime
    runtime,            \* AgentRuntime: _status, _current_task_id
    frame,              \* execute_task: where it stands, iterations, total_tokens
    llm_calls,          \* calls of LLMClient.complete made by the running execute_task
    returned            \* the AgentExecutionResult of the last execute_task

VARIABLES
    workflow,           \* the WorkflowDefinition handed to WorkflowEngine.execute
    execution,          \* the WorkflowExecution handed to WorkflowEngine.execute
    engine,             \* WorkflowEngine.execute: where it stands, the index of its for loop
    started,            \* step ids handed to _execute_step, in order
    ended,              \* what each _execute_step returned, in order
    compensated         \* step ids handed to _execute_compensation, in order

VARIABLES
    stream,             \* the messages published through NATSClient.publish, in order
    consumers,          \* the consumers of NATSClient.subscribe: durable name -> fields
    workers,            \* the AgentWorker processes: worker_id -> fields
    redis,              \* the stored task records: task_id -> status
    executors           \* MockTaskExecutor._pending_results of each WorkflowWorker

router_vars == <<tasks, instances, queues, pending_tasks, agents, agent_definitions,
                 supervisor_agents, events, now, got>>
parser_vars == <<content, available_tools, text_tool_call>>
tools_vars == <<registry, executor_max_retries, invocations, tool_result>>
runtime_vars == <<constraints, runtime, frame, llm_calls, returned>>

engine_vars == <<workflow, execution, engine, started, ended, compensated>>
worker_vars == <<stream, consumers, workers, redis, executors>>

vars == <<router_vars, parser_vars, tools_vars, runtime_vars, engine_vars, worker_vars>>

\* what the router, the parser, the tool executor, the agent runtime, the
\* workflow engine and the worker processes leave alone
outside_router == <<parser_vars, tools_vars, runtime_vars, engine_vars, worker_vars>>
outside_parser == <<router_vars, tools_vars, runtime_vars, engine_vars, worker_vars>>
outside_tools == <<router_vars, parser_vars, runtime_vars, engine_vars, worker_vars>>
outside_runtime == <<router_vars, parser_vars, engine_vars, worker_vars>>  \* it drives the ToolExecutor
outside_engine == <<router_vars, parser_vars, tools_vars, runtime_vars, worker_vars>>
outside_workers == <<router_vars, parser_vars, tools_vars, runtime_vars, engine_vars>>

\* ------------------------------------------------------- helper operators
Range(s) == {s[k] : k \in 1..Len(s)}

RECURSIVE reversed(_)
reversed(s) == IF s = <<>> THEN <<>> ELSE Append(reversed(Tail(s)), Head(s))

RECURSIVE remove(_, _)
remove(s, x) ==
    IF s = <<>> THEN <<>>
    ELSE IF Head(s) = x THEN remove(Tail(s), x)
    ELSE <<Head(s)>> \o remove(Tail(s), x)

\* ------------------------------------------------------------------ Task
\* Task(...) as its constructor leaves it
Task(priority, required_capabilities, max_retries) ==
    [status |-> PENDING,
     priority |-> priority,
     required_capabilities |-> required_capabilities,
     assigned_agent_id |-> None,
     retry_count |-> 0,
     max_retries |-> max_retries]

\* can_retry off by one
can_retry_inclusive(task) == task.retry_count <= task.max_retries

can_retry(task) == task.retry_count < task.max_retries

\* ------------------------------------------------------------- TaskQueue
EmptyQueues == [p \in Range(TaskPriority) |-> <<>>]

\* TaskQueue.put that adds the task at the head of its level
TaskQueue_put_front(qs, task_id, task) ==
    [qs EXCEPT ![task.priority] = <<task_id>> \o @]

TaskQueue_put(qs, task_id, task) ==
    [qs EXCEPT ![task.priority] = Append(@, task_id)]

RECURSIVE get_scan(_, _)
get_scan(qs, order) ==
    IF order = <<>> THEN [task |-> None, queues |-> qs]
    ELSE IF qs[Head(order)] # <<>>
         THEN [task |-> Head(qs[Head(order)]),
               queues |-> [qs EXCEPT ![Head(order)] = Tail(@)]]
         ELSE get_scan(qs, Tail(order))

\* TaskQueue.get that scans the levels in definition order (reversed() forgotten)
TaskQueue_get_ascending(qs) == get_scan(qs, TaskPriority)

TaskQueue_get(qs) == get_scan(qs, reversed(TaskPriority))

RECURSIVE sum_len(_, _)
sum_len(qs, order) ==
    IF order = <<>> THEN 0 ELSE Len(qs[Head(order)]) + sum_len(qs, Tail(order))

qsize(qs) == sum_len(qs, TaskPriority)

\* ------------------------------------------------------------- TaskEvent
\* DomainEvent(...): version has the default 1, which no factory overrides
DomainEvent(event_type, aggregate_id) ==
    [event_type |-> event_type, aggregate_id |-> aggregate_id, version |-> 1]

TaskEvent_created(task_id) == DomainEvent("task.created", task_id)
TaskEvent_assigned(task_id) == DomainEvent("task.assigned", task_id)
TaskEvent_completed(task_id) == DomainEvent("task.completed", task_id)
TaskEvent_failed(task_id) == DomainEvent("task.failed", task_id)

\* what the log keeps of an event, under its aggregate_id
Logged(event) == [event_type |-> event.event_type, version |-> event.version]

\* the event publisher files the event under its aggregate_id
event_publisher(log, event) ==
    IF event.aggregate_id \in DOMAIN log
    THEN [log EXCEPT ![event.aggregate_id] = Append(@, Logged(event))]
    ELSE log @@ (event.aggregate_id :> <<Logged(event)>>)

\* --------------------------------------------------------- AgentInstance
AgentInstance(agent_definition_id, started_at) ==
    [agent_definition_id |-> agent_definition_id,
     status |-> IDLE,
     current_task_id |-> None,
     started_at |-> started_at,
     last_heartbeat |-> None,
     tasks_completed |-> 0,
     tasks_failed |-> 0,
     total_execution_time_ms |-> 0]

is_available(instance) ==
    instance.status = IDLE /\ instance.current_task_id = None

\* AgentInstance.record_task_completion, called by the holder of the instance
record_task_completion(instance_id, execution_time_ms, succeeded) ==
    /\ instances' = [instances EXCEPT
           ![instance_id].tasks_completed = IF succeeded THEN @ + 1 ELSE @,
           ![instance_id].tasks_failed = IF succeeded THEN @ ELSE @ + 1,
           ![instance_id].total_execution_time_ms = @ + execution_time_ms]
    /\ UNCHANGED outside_router
    /\ UNCHANGED <<tasks, queues, pending_tasks, agents, agent_definitions,
                   supervisor_agents, events, now, got>>

\* the sort key of _find_agent, a.total_execution_time_ms / max(a.tasks_completed, 1)
\* or float("inf") without a completion, compared without rounding
key_less(a, b) ==
    IF a.tasks_completed > 0 /\ b.tasks_completed > 0
    THEN a.total_execution_time_ms * b.tasks_completed
             < b.total_execution_time_ms * a.tasks_completed
    ELSE a.tasks_completed > 0 /\ b.tasks_completed = 0

\* ---------------------------------------------------------- Orchestrator
\* the candidates list of _find_agent, in the order of _agents.values()
\* _find_agent without its capability check
is_candidate_any_capability(task, instance_id) ==
    /\ is_available(instances[instance_id])
    /\ instances[instance_id].agent_definition_id \in DOMAIN agent_definitions

is_candidate(task, instance_id) ==
    /\ is_available(instances[instance_id])
    /\ instances[instance_id].agent_definition_id \in DOMAIN agent_definitions
    /\ \/ task.required_capabilities = {}
       \/ task.required_capabilities \subseteq
              agent_definitions[instances[instance_id].agent_definition_id].capabilities

candidates(task) ==
    LET test(instance_id) == is_candidate(task, instance_id)
    IN  SelectSeq(agents, test)

\* candidates.sort(key=...) is stable: the first candidate no other one beats
find_agent(task) ==
    LET c == candidates(task)
        best == CHOOSE k \in 1..Len(c) :
                    /\ \A j \in 1..Len(c) : ~key_less(instances[c[j]], instances[c[k]])
                    /\ \A j \in 1..(k - 1) : key_less(instances[c[k]], instances[c[j]])
    IN  IF c = <<>> THEN None ELSE c[best]

\* the first agent of _agents.values() whose current_task_id is task_id
holder(task_id) ==
    LET h == SelectSeq(agents, LAMBDA i : instances[i].current_task_id = task_id)
    IN  IF h = <<>> THEN None ELSE Head(h)

register_agent(instance_id, definition) ==
    /\ instance_id \notin DOMAIN instances
    /\ instances' = instances @@
           (instance_id :> AgentInstance(definition.agent_id, now))
    /\ agent_definitions' = (definition.agent_id :> definition) @@ agent_definitions
    /\ agents' = Append(agents, instance_id)
    /\ UNCHANGED outside_router
    /\ UNCHANGED <<tasks, queues, pending_tasks, supervisor_agents, events, now, got>>

unregister_agent(instance_id) ==
    /\ instance_id \in Range(agents)
    /\ agents' = remove(agents, instance_id)
    /\ UNCHANGED outside_router
    /\ UNCHANGED <<tasks, instances, queues, pending_tasks, agent_definitions,
                   supervisor_agents, events, now, got>>

submit_task(task_id, task) ==
    /\ task_id \notin DOMAIN tasks
    /\ tasks' = tasks @@ (task_id :> [task EXCEPT !.status = QUEUED])
    /\ pending_tasks' = pending_tasks \cup {task_id}
    /\ queues' = TaskQueue_put(queues, task_id, task)
    /\ events' = event_publisher(events, TaskEvent_created(task_id))
    /\ UNCHANGED outside_router
    /\ UNCHANGED <<instances, agents, agent_definitions, supervisor_agents, now, got>>

assign_task(task_id, instance_id) ==
    /\ tasks' = [tasks EXCEPT
           ![task_id].status = ASSIGNED,
           ![task_id].assigned_agent_id = instances[instance_id].agent_definition_id]
    /\ instances' = [instances EXCEPT
           ![instance_id].current_task_id = task_id,
           ![instance_id].status = RUNNING]
    /\ events' = event_publisher(events, TaskEvent_assigned(task_id))

\* _dispatch_loop that forgets the task for which it finds no agent
dispatch_loop_drops_unserved ==
    LET r == TaskQueue_get(queues)
        agent == find_agent(tasks[r.task])
    IN  /\ r.task # None
        /\ IF agent # None
           THEN /\ assign_task(r.task, agent)
                /\ queues' = r.queues
           ELSE /\ queues' = r.queues
                /\ UNCHANGED <<tasks, instances, events>>
        /\ UNCHANGED outside_router
        /\ UNCHANGED <<pending_tasks, agents, agent_definitions, supervisor_agents,
                       now, got>>

\* one iteration of _dispatch_loop that found a task; with an empty queue the
\* iteration sleeps and changes nothing
dispatch_loop ==
    LET r == TaskQueue_get(queues)
        agent == find_agent(tasks[r.task])
    IN  /\ r.task # None
        /\ IF agent # None
           THEN /\ assign_task(r.task, agent)
                /\ queues' = r.queues
           ELSE /\ queues' = TaskQueue_put(r.queues, r.task, tasks[r.task])
                /\ UNCHANGED <<tasks, instances, events>>
        /\ UNCHANGED outside_router
        /\ UNCHANGED <<pending_tasks, agents, agent_definitions, supervisor_agents,
                       now, got>>

\* complete_task that reads _pending_tasks with get() instead of pop()
complete_task_keeps_pending(task_id) ==
    /\ task_id \in pending_tasks
    /\ tasks' = [tasks EXCEPT ![task_id].status = COMPLETED]
    /\ instances' =
           IF holder(task_id) = None THEN instances
           ELSE [instances EXCEPT
                    ![holder(task_id)].current_task_id = None,
                    ![holder(task_id)].status = IDLE,
                    ![holder(task_id)].tasks_completed = @ + 1]
    /\ events' = event_publisher(events, TaskEvent_completed(task_id))
    /\ UNCHANGED outside_router
    /\ UNCHANGED <<queues, pending_tasks, agents, agent_definitions, supervisor_agents,
                   now, got>>

complete_task(task_id) ==
    /\ task_id \in pending_tasks
    /\ pending_tasks' = pending_tasks \ {task_id}
    /\ tasks' = [tasks EXCEPT ![task_id].status = COMPLETED]
    /\ instances' =
           IF holder(task_id) = None THEN instances
           ELSE [instances EXCEPT
                    ![holder(task_id)].current_task_id = None,
                    ![holder(task_id)].status = IDLE,
                    ![holder(task_id)].tasks_completed = @ + 1]
    /\ events' = event_publisher(events, TaskEvent_completed(task_id))
    /\ UNCHANGED outside_router
    /\ UNCHANGED <<queues, agents, agent_definitions, supervisor_agents, now, got>>

fail_task(task_id, error) ==
    /\ task_id \in pending_tasks
    /\ instances' =
           IF holder(task_id) = None THEN instances
           ELSE [instances EXCEPT
                    ![holder(task_id)].current_task_id = None,
                    ![holder(task_id)].status = IDLE,
                    ![holder(task_id)].tasks_failed = @ + 1]
    /\ IF can_retry(tasks[task_id])
       THEN /\ tasks' = [tasks EXCEPT
                   ![task_id].retry_count = @ + 1,
                   ![task_id].status = PENDING]
            /\ queues' = TaskQueue_put(queues, task_id, tasks[task_id])
            /\ UNCHANGED <<pending_tasks, events>>
       ELSE /\ tasks' = [tasks EXCEPT ![task_id].status = FAILED]
            /\ pending_tasks' = pending_tasks \ {task_id}
            /\ events' = event_publisher(events, TaskEvent_failed(task_id))
            /\ UNCHANGED queues
    /\ UNCHANGED outside_router
    /\ UNCHANGED <<agents, agent_definitions, supervisor_agents, now, got>>

\* ------------------------------------------------------- AgentSupervisor
register(instance_id) ==
    /\ instance_id \in DOMAIN instances
    /\ supervisor_agents' = supervisor_agents \cup {instance_id}
    /\ UNCHANGED outside_router
    /\ UNCHANGED <<tasks, instances, queues, pending_tasks, agents, agent_definitions,
                   events, now, got>>

unregister(instance_id) ==
    /\ supervisor_agents' = supervisor_agents \ {instance_id}
    /\ UNCHANGED outside_router
    /\ UNCHANGED <<tasks, instances, queues, pending_tasks, agents, agent_definitions,
                   events, now, got>>

heartbeat(instance_id) ==
    /\ instance_id \in supervisor_agents
    /\ instances' = [instances EXCEPT ![instance_id].last_heartbeat = now]
    /\ UNCHANGED outside_router
    /\ UNCHANGED <<tasks, queues, pending_tasks, agents, agent_definitions,
                   supervisor_agents, events, now, got>>

\* the `unhealthy` list of _check_health
unhealthy ==
    {instance_id \in supervisor_agents :
        /\ instances[instance_id].status # TERMINATED
        /\ instances[instance_id].last_heartbeat # None
        /\ now - instances[instance_id].last_heartbeat > heartbeat_timeout}

\* _handle_unhealthy_agent: the status is set, the active task is only logged
handle_unhealthy_agent(instance) == [instance EXCEPT !.status = ERROR]

\* one sweep of _health_check_loop
check_health ==
    /\ instances' = [instance_id \in DOMAIN instances |->
           IF instance_id \in unhealthy
           THEN handle_unhealthy_agent(instances[instance_id])
           ELSE instances[instance_id]]
    /\ UNCHANGED outside_router
    /\ UNCHANGED <<tasks, queues, pending_tasks, agents, agent_definitions,
                   supervisor_agents, events, now, got>>

\* the wall clock advances
Tick ==
    /\ now < MaxTime
    /\ now' = now + 1
    /\ UNCHANGED outside_router
    /\ UNCHANGED <<tasks, instances, queues, pending_tasks, agents, agent_definitions,
                   supervisor_agents, events, got>>

\* ------------------------------------------------------------ JSON values
\* a JSON value as json.loads returns it: a str, a dict (its members in the
\* order of the text) or None; `absent` stands for a key a dict does not have
JString(s) == [type |-> "string", text |-> s, members |-> <<>>]
JObject(members) == [type |-> "object", text |-> "", members |-> members]
null == [type |-> "null", text |-> "", members |-> <<>>]
absent == [type |-> "absent", text |-> "", members |-> <<>>]
Member(key, value) == [key |-> key, value |-> value]

\* "key" in data
has_key(data, key) == \E k \in 1..Len(data.members) : data.members[k].key = key

\* data.get(key)
dict_get(data, key) ==
    IF has_key(data, key)
    THEN data.members[CHOOSE k \in 1..Len(data.members) : data.members[k].key = key].value
    ELSE null

\* bool(value)
truthy(value) ==
    \/ value.type = "string" /\ value.text # ""
    \/ value.type = "object" /\ value.members # <<>>

\* a or b
or_else(a, b) == IF truthy(a) THEN a ELSE b

\* ------------------------------------------------- _parse_text_tool_call
\* the content of an LLM response: nothing, prose without braces, or a JSON
\* document alone ("json"), after prose ("prose_json"), in a ```json block
\* ("fenced_json") or in a ``` block ("fenced")
Content(form, doc) == [form |-> form, doc |-> doc]

RECURSIVE brace_free_objects(_)
RECURSIVE brace_free_in(_)
\* the {...} spans of the text of a value with no brace inside, left to right
brace_free_objects(value) ==
    IF value.type # "object" THEN <<>>
    ELSE IF \A k \in 1..Len(value.members) : value.members[k].value.type # "object"
         THEN <<value>>
         ELSE brace_free_in(value.members)
brace_free_in(members) ==
    IF members = <<>> THEN <<>>
    ELSE brace_free_objects(Head(members).value) \o brace_free_in(Tail(members))

\* re.search of r'\{[^{}]*"name"\s*:\s*"([^"]+)"[^{}]*\}': the leftmost span
\* without inner braces that has a "name" key with a non-empty string
simple_json_with_name(c) ==
    LET spans == IF c.doc = null THEN <<>> ELSE brace_free_objects(c.doc)
        hit(o) == /\ has_key(o, "name")
                  /\ dict_get(o, "name").type = "string"
                  /\ dict_get(o, "name").text # ""
        hits == SelectSeq(spans, hit)
    IN  IF hits = <<>> THEN null ELSE Head(hits)

\* re.search of r'```json\s*(\{.*?\})\s*```' and of r'```\s*(\{.*?\})\s*```'
json_in_code_block(c) == IF c.form = "fenced_json" THEN c.doc ELSE null
json_in_generic_code_block(c) == IF c.form = "fenced" THEN c.doc ELSE null

\* lines 60-66 and 74-78: the tool call a parsed dict stands for, if any
as_tool_call(data, tools) ==
    IF /\ data.type = "object"
       /\ has_key(data, "name")
       /\ dict_get(data, "name").type = "string"
       /\ dict_get(data, "name").text \in tools
    THEN [name |-> dict_get(data, "name").text,
          arguments |-> or_else(dict_get(data, "parameters"),
                                or_else(dict_get(data, "arguments"), JObject(<<>>)))]
    ELSE null

\* the patterns tried in order, each on the whole content
RECURSIVE first_tool_call(_, _)
first_tool_call(matches, tools) ==
    IF matches = <<>> THEN null
    ELSE IF as_tool_call(Head(matches), tools) # null
         THEN as_tool_call(Head(matches), tools)
         ELSE first_tool_call(Tail(matches), tools)

parse_text_tool_call(c, tools) ==
    IF c.form \in {"empty", "text"} THEN null
    ELSE first_tool_call(<<simple_json_with_name(c),
                           json_in_code_block(c),
                           json_in_generic_code_block(c),
                           IF c.form = "json" THEN c.doc ELSE null>>, tools)

\* a direct call of _parse_text_tool_call
parse ==
    /\ text_tool_call = absent
    /\ text_tool_call' = parse_text_tool_call(content, available_tools)
    /\ UNCHANGED <<content, available_tools>>
    /\ UNCHANGED outside_parser

\* ------------------------------------------------- ToolRegistry, tools
ToolConfig(retry_count) == [retry_count |-> retry_count]

ToolResult(name, success, error) == [name |-> name, success |-> success, error |-> error]

\* ToolRegistry.__init__ and ToolExecutor.__init__; nothing has been executed
ToolRegistry_init ==
    /\ registry = <<>>
    /\ executor_max_retries = 0
    /\ invocations = <<>>
    /\ tool_result = null

ToolRegistry_register(name, config) ==
    /\ registry' = (name :> config) @@ registry
    /\ UNCHANGED <<executor_max_retries, invocations, tool_result>>
    /\ UNCHANGED outside_tools

ToolRegistry_unregister(name) ==
    /\ registry' = [n \in DOMAIN registry \ {name} |-> registry[n]]
    /\ UNCHANGED <<executor_max_retries, invocations, tool_result>>
    /\ UNCHANGED outside_tools

\* what one attempt, `await asyncio.wait_for(tool.execute(**arguments), timeout)`,
\* can do: return, time out, raise, or raise the TypeError of arguments that do
\* not fit the parameters
Outcomes == {"ok", "timeout", "error", "invalid arguments"}

\* last_error after an attempt with this outcome
error_of(outcome) ==
    IF outcome = "timeout" THEN "Tool execution timed out" ELSE outcome

\* the retry_count of the tool's config without the fallback
retry_budget_of_config(config, max_retries) == config.retry_count

\* tool.config.retry_count or self._max_retries
retry_budget(config, max_retries) ==
    IF config.retry_count # 0 THEN config.retry_count ELSE max_retries

\* ToolExecutor.execute that skips the lookup and runs a missing tool as one
\* with a default ToolConfig
ToolExecutor_execute_unchecked(tools, max_retries, name, outcomes) ==
    LET config == IF name \in DOMAIN tools THEN tools[name] ELSE ToolConfig(0)
        budget == 1 + retry_budget(config, max_retries)
        oks == {k \in 1..budget : outcomes[k] = "ok"}
        first_ok == CHOOSE k \in oks : \A j \in oks : k <= j
    IN  IF oks # {}
        THEN [result |-> ToolResult(name, TRUE, null),
              invoked |-> [k \in 1..first_ok |-> name]]
        ELSE [result |-> ToolResult(name, FALSE, JString(error_of(outcomes[budget]))),
              invoked |-> [k \in 1..budget |-> name]]

\* ToolExecutor.execute: the ToolResult and the attempts made, when attempt k
\* ends as outcomes[k]
ToolExecutor_execute(tools, max_retries, name, outcomes) ==
    IF name \notin DOMAIN tools
    THEN [result |-> ToolResult(name, FALSE, JString("Tool '" \o name \o "' not found")),
          invoked |-> <<>>]
    ELSE LET budget == 1 + retry_budget(tools[name], max_retries)
             oks == {k \in 1..budget : outcomes[k] = "ok"}
             first_ok == CHOOSE k \in oks : \A j \in oks : k <= j
         IN  IF oks # {}
             THEN [result |-> ToolResult(name, TRUE, null),
                   invoked |-> [k \in 1..first_ok |-> name]]
             ELSE [result |-> ToolResult(name, FALSE, JString(error_of(outcomes[budget]))),
                   invoked |-> [k \in 1..budget |-> name]]

\* a direct call of ToolExecutor.execute
execute(name, outcomes) ==
    /\ tool_result' =
           ToolExecutor_execute(registry, executor_max_retries, name, outcomes).result
    /\ invocations' =
           ToolExecutor_execute(registry, executor_max_retries, name, outcomes).invoked
    /\ UNCHANGED <<registry, executor_max_retries>>
    /\ UNCHANGED outside_tools

\* ---------------------------------------------------------- AgentRuntime
\* allowed_tools: list[str] | None
Unset == [given |-> FALSE, names |-> {}]
Listed(names) == [given |-> TRUE, names |-> names]

AgentConstraints(max_iterations, max_tokens_per_task, allowed_tools, denied_tools) ==
    [max_iterations |-> max_iterations,
     max_tokens_per_task |-> max_tokens_per_task,
     allowed_tools |-> allowed_tools,
     denied_tools |-> denied_tools]

\* no execute_task is running
NoFrame == [pc |-> "idle", iterations |-> 0, total_tokens |-> 0, tool_schemas |-> {}]

\* AgentRuntime.__init__ for a definition with these constraints
AgentRuntime_init(c) ==
    /\ constraints = c
    /\ runtime = [status |-> IDLE, current_task_id |-> None]
    /\ frame = NoFrame
    /\ llm_calls = 0
    /\ returned = null

\* ToolRegistry.get_llm_schemas(allowed): the names of the schemas
get_llm_schemas(tools, allowed) ==
    IF allowed.given /\ allowed.names # {}
    THEN {name \in DOMAIN tools : name \in allowed.names}
    ELSE DOMAIN tools

\* allowed_tools or []
allowed_or_empty(allowed) == IF allowed.given THEN allowed.names ELSE {}

\* a ToolCall of an LLMResponse: function.name and function.arguments, a JSON
\* text that json.loads turns into a dict or rejects (`malformed`)
malformed == [type |-> "malformed", text |-> "", members |-> <<>>]
LLMToolCall(name, arguments) == [name |-> name, arguments |-> arguments]

\* an LLMResponse; tokens is prompt_tokens + completion_tokens
LLMResponse(tokens, tool_calls, content_) ==
    [tokens |-> tokens, tool_calls |-> tool_calls, content |-> content_]

AgentExecutionResult(success, result, error, iterations, total_tokens) ==
    [success |-> success, result |-> result, error |-> error,
     iterations |-> iterations, total_tokens |-> total_tokens]

RECURSIVE handle_tool_calls(_)
\* _handle_tool_calls: what it ends with ("answer": the return at final_answer,
\* "raise": json.loads failed, "none": the loop ran out) and the ToolCalls it
\* handed to the ToolExecutor before that, in order
handle_tool_calls(tool_calls) ==
    IF tool_calls = <<>> THEN [kind |-> "none", value |-> null, executed |-> <<>>]
    ELSE IF Head(tool_calls).arguments = malformed
         THEN [kind |-> "raise", value |-> null, executed |-> <<>>]
    ELSE IF Head(tool_calls).name = "final_answer"
         THEN [kind |-> "answer",
               value |-> dict_get(Head(tool_calls).arguments, "answer"),
               executed |-> <<>>]
    ELSE [handle_tool_calls(Tail(tool_calls)) EXCEPT
              !.executed = <<Head(tool_calls).name>> \o @]

RECURSIVE invoked_by(_, _)
\* the attempts the ToolExecutor makes for these ToolCalls, one after the other
invoked_by(names, outcomes) ==
    IF names = <<>> THEN <<>>
    ELSE ToolExecutor_execute(registry, executor_max_retries, Head(names), outcomes).invoked
             \o invoked_by(Tail(names), outcomes)

\* the ToolExecutor runs these ToolCalls
run_tools(names, outcomes) ==
    /\ invocations' = invocations \o invoked_by(names, outcomes)
    /\ tool_result' =
           IF names = <<>> THEN tool_result
           ELSE ToolExecutor_execute(registry, executor_max_retries,
                                     names[Len(names)], outcomes).result
    /\ UNCHANGED <<registry, executor_max_retries>>

\* execute_task returns: the status set just before, the finally clause
return_result(status, result) ==
    /\ runtime' = [status |-> status, current_task_id |-> None]
    /\ frame' = NoFrame
    /\ returned' = result

\* the except clause of execute_task
except_clause(error, total_tokens) ==
    return_result(ERROR, AgentExecutionResult(FALSE, null, JString(error),
                                              frame.iterations, total_tokens))

success(result, total_tokens) ==
    return_result(IDLE, AgentExecutionResult(TRUE, result, null,
                                             frame.iterations, total_tokens))

\* the while loop with `<=` for `<`
continue_loop_one_more(total_tokens) ==
    IF frame.iterations <= constraints.max_iterations
    THEN /\ frame' = [frame EXCEPT !.pc = "loop", !.total_tokens = total_tokens]
         /\ UNCHANGED <<runtime, returned>>
    ELSE except_clause("Max iterations reached", total_tokens)

\* back to the head of the while loop: it is left with RuntimeError("Max
\* iterations reached") when the budget is used up
continue_loop(total_tokens) ==
    IF frame.iterations < constraints.max_iterations
    THEN /\ frame' = [frame EXCEPT !.pc = "loop", !.total_tokens = total_tokens]
         /\ UNCHANGED <<runtime, returned>>
    ELSE except_clause("Max iterations reached", total_tokens)

\* execute_task up to the head of its loop
execute_task(task_id) ==
    /\ frame.pc = "idle"
    /\ runtime' = [status |-> RUNNING, current_task_id |-> task_id]
    /\ frame' = [pc |-> "loop", iterations |-> 0, total_tokens |-> 0,
                 tool_schemas |-> get_llm_schemas(registry, constraints.allowed_tools)]
    /\ llm_calls' = 0
    /\ returned' = null
    /\ invocations' = <<>>
    /\ UNCHANGED <<constraints, registry, executor_max_retries, tool_result>>
    /\ UNCHANGED outside_runtime

\* AgentRuntime.stop: a graceful stop waits until no task is current; the
\* status is set, nothing is done to an execute_task that is under way
AgentRuntime_stop(graceful) ==
    /\ graceful => runtime.current_task_id = None
    /\ runtime' = [runtime EXCEPT !.status = TERMINATED]
    /\ UNCHANGED <<constraints, frame, llm_calls, returned>>
    /\ UNCHANGED tools_vars
    /\ UNCHANGED outside_runtime

\* one pass of the loop up to `await self._llm_client.complete(...)`
llm_complete ==
    /\ frame.pc = "loop"
    /\ frame' = [frame EXCEPT !.pc = "awaiting", !.iterations = @ + 1]
    /\ llm_calls' = llm_calls + 1
    /\ invocations' = <<>>
    /\ UNCHANGED <<constraints, runtime, returned, registry, executor_max_retries,
                   tool_result>>
    /\ UNCHANGED outside_runtime

\* the LLM call raises
llm_error ==
    /\ frame.pc = "awaiting"
    /\ except_clause("llm error", frame.total_tokens)
    /\ UNCHANGED <<constraints, llm_calls>>
    /\ UNCHANGED tools_vars
    /\ UNCHANGED outside_runtime

\* the rest of a pass of the loop, from the LLMResponse on: the token limit,
\* then the structured tool calls or the text of the response; every attempt of
\* a tool it runs ends as `outcome`
llm_response(response, outcome) ==
    LET total_tokens == frame.total_tokens + response.tokens
        outcomes == [k \in 1..(1 + MaxToolRetries) |-> outcome]
        handled == handle_tool_calls(response.tool_calls)
        text_call == parse_text_tool_call(response.content,
                                          allowed_or_empty(constraints.allowed_tools))
    \* (the tools run before the loop goes on; the conjuncts are in the order
    \* that is cheapest to evaluate)
    IN  /\ frame.pc = "awaiting"
        /\ IF total_tokens >= constraints.max_tokens_per_task
           THEN /\ except_clause("Token limit exceeded", total_tokens)
                /\ UNCHANGED tools_vars
           ELSE IF response.tool_calls # <<>>
           THEN /\ IF handled.kind = "raise"
                   THEN except_clause("json decode error", total_tokens)
                   ELSE IF handled.kind = "answer" /\ handled.value # null
                   THEN success(handled.value, total_tokens)
                   ELSE continue_loop(total_tokens)
                /\ run_tools(handled.executed, outcomes)
           ELSE IF text_call # null
           THEN IF text_call.name = "final_answer"
                THEN /\ success(dict_get(text_call.arguments, "answer"), total_tokens)
                     /\ UNCHANGED tools_vars
                ELSE /\ continue_loop(total_tokens)
                     /\ run_tools(<<text_call.name>>, outcomes)
           ELSE /\ success(response.content, total_tokens)
                /\ UNCHANGED tools_vars
        /\ UNCHANGED <<constraints, llm_calls>>
        /\ UNCHANGED outside_runtime

\* -------------------------------------------------------- WorkflowEngine
\* of WorkflowStep: what the engine reads (a task template and a condition are
\* there when the type asks for one; compensation is set or None)
WorkflowStep(step_id, step_type, children, depends_on, compensation) ==
    [step_id |-> step_id, step_type |-> step_type, children |-> children,
     depends_on |-> depends_on, compensation |-> compensation]

WorkflowDefinition(steps) == [steps |-> steps]

\* WorkflowExecution(...) as its constructor leaves it
WorkflowExecution ==
    [status |-> PENDING, current_step_id |-> "", completed_steps |-> <<>>,
     failed_step_id |-> "", total_steps |-> 0]

\* WorkflowDefinition.get_step: the steps and their children, no deeper
get_step(d, step_id) ==
    LET has_child(st) ==
            \E k \in 1..Len(st.children) : st.children[k].step_id = step_id
        first_child(st) ==
            st.children[CHOOSE k \in 1..Len(st.children) :
                /\ st.children[k].step_id = step_id
                /\ \A j \in 1..(k - 1) : st.children[j].step_id # step_id]
        \* the places at which the scan of d.steps meets step_id
        hits == {k \in 1..Len(d.steps) :
                    d.steps[k].step_id = step_id \/ has_child(d.steps[k])}
        k0 == CHOOSE k \in hits : \A j \in hits : k <= j
    IN  IF hits = {} THEN null
        ELSE IF d.steps[k0].step_id = step_id THEN d.steps[k0]
        ELSE first_child(d.steps[k0])

\* a dependency check that only lets steps without dependencies run
dependencies_satisfied_none(step, e) == step.depends_on = {}

\* _dependencies_satisfied
dependencies_satisfied(step, e) ==
    \A dep_id \in step.depends_on : dep_id \in Range(e.completed_steps)

RECURSIVE concat(_)
concat(seqs) == IF seqs = <<>> THEN <<>> ELSE Head(seqs) \o concat(Tail(seqs))

\* what a step's own work can end as: the task executor returns a result or
\* None, asyncio.wait_for times out, or something raises
StepOutcomes == {"result", "none", "timeout", "error"}

\* what _execute_step ends with: a result or None, the steps it started, the
\* ids it handed to execution.complete_step and those to execution.fail, and
\* what the calls of _execute_step inside it returned
Ended(result, started_, completed, failed, ended_) ==
    [result |-> result, started |-> started_, completed |-> completed,
     failed |-> failed, ended |-> ended_]

Returned(step_id, result) == [step_id |-> step_id, result |-> result]

RECURSIVE execute_step(_, _, _)
RECURSIVE execute_parallel(_, _, _)
RECURSIVE execute_conditional(_, _, _)

\* _execute_parallel: every child is run; complete_step for each child with a
\* result, in the order of step.children; the dict of results is returned
execute_parallel(step, outcome, condition) ==
    LET rs == [k \in 1..Len(step.children) |->
                   execute_step(step.children[k], outcome, condition)]
    IN  Ended("value",
              concat([k \in 1..Len(rs) |-> rs[k].started]),
              concat([k \in 1..Len(rs) |-> rs[k].completed]) \o
                  concat([k \in 1..Len(rs) |->
                      IF rs[k].result # "none" THEN <<step.children[k].step_id>>
                      ELSE <<>>]),
              UNION {rs[k].failed : k \in 1..Len(rs)},
              concat([k \in 1..Len(rs) |-> rs[k].ended]))

\* _execute_conditional with the two branches exchanged
execute_conditional_exchanged(step, outcome, condition) ==
    IF ~condition[step.step_id] /\ step.children # <<>>
    THEN execute_step(step.children[1], outcome, condition)
    ELSE IF condition[step.step_id] /\ Len(step.children) > 1
    THEN execute_step(step.children[2], outcome, condition)
    ELSE Ended("value", <<>>, <<>>, {}, <<>>)

\* _execute_conditional: children[0] when the condition holds, children[1]
\* when it does not, {"condition_result": ...} when that child is missing
execute_conditional(step, outcome, condition) ==
    IF condition[step.step_id] /\ step.children # <<>>
    THEN execute_step(step.children[1], outcome, condition)
    ELSE IF ~condition[step.step_id] /\ Len(step.children) > 1
    THEN execute_step(step.children[2], outcome, condition)
    ELSE Ended("value", <<>>, <<>>, {}, <<>>)

\* _execute_step, when the own work of step s ends as outcome[s] and the
\* condition of a CONDITIONAL step s evaluates to condition[s]
execute_step(step, outcome, condition) ==
    LET body ==
            CASE step.step_type = AGENT_TASK ->
                     IF outcome[step.step_id] = "result"
                     THEN Ended("value", <<>>, <<>>, {}, <<>>)
                     ELSE IF outcome[step.step_id] = "none"
                     THEN Ended("none", <<>>, <<>>, {}, <<>>)
                     ELSE Ended("none", <<>>, <<>>, {step.step_id}, <<>>)
              [] step.step_type = PARALLEL -> execute_parallel(step, outcome, condition)
              [] step.step_type = CONDITIONAL ->
                     execute_conditional(step, outcome, condition)
              [] step.step_type \in {WAIT, HUMAN_APPROVAL} ->
                     Ended("value", <<>>, <<>>, {}, <<>>)
              [] OTHER -> Ended("none", <<>>, <<>>, {step.step_id}, <<>>)
    IN  [body EXCEPT !.started = <<step.step_id>> \o @,
                     !.ended = @ \o <<Returned(step.step_id, body.result)>>]

\* the completed steps that _compensate finds and that have a compensation
WithCompensationFound(d, completed_steps) ==
    {step_id \in Range(completed_steps) : /\ get_step(d, step_id) # null
                                          /\ get_step(d, step_id).compensation}

\* the compensations that raise: none, or a single one of those invoked
Raising(d, completed_steps) ==
    {{}} \cup {{step_id} : step_id \in WithCompensationFound(d, completed_steps)}

\* the ids _compensate hands to _execute_compensation, in order, each with
\* whether _task_executor.execute raised (which _compensate only logs)
compensate(d, completed_steps, raising) ==
    LET step_ids == SelectSeq(reversed(completed_steps),
                        LAMBDA step_id :
                            step_id \in WithCompensationFound(d, completed_steps))
    IN  [k \in 1..Len(step_ids) |->
            [step_id |-> step_ids[k], raised |-> step_ids[k] \in raising]]

\* WorkflowEngine.execute has not been called
workflow_not_started(d) ==
    /\ workflow = d
    /\ execution = WorkflowExecution
    /\ engine = [pc |-> "created", index |-> 1]
    /\ started = <<>>
    /\ ended = <<>>
    /\ compensated = <<>>

\* WorkflowEngine.execute up to its for loop
WorkflowEngine_execute ==
    /\ engine.pc = "created"
    /\ execution' = [execution EXCEPT !.status = RUNNING,
                                      !.total_steps = Len(workflow.steps)]
    /\ engine' = [engine EXCEPT !.pc = "loop"]
    /\ UNCHANGED <<workflow, started, ended, compensated>>
    /\ UNCHANGED outside_engine

\* one iteration of the for loop of WorkflowEngine.execute, the status being
\* RUNNING: the step is skipped, or it is run and then completed or, its result
\* being None, execute() returns (after _compensate when the status is FAILED).
\* failed_step_id is the step of the last execution.fail: concurrent children of
\* a PARALLEL step fail in any order.
WorkflowEngine_step(outcome, condition) ==
    LET step == workflow.steps[engine.index]
        r == execute_step(step, outcome, condition)
        completed_steps ==
            execution.completed_steps \o r.completed \o
                (IF r.result # "none" THEN <<step.step_id>> ELSE <<>>)
    IN  /\ engine.pc = "loop"
        /\ engine.index <= Len(workflow.steps)
        /\ execution.status = RUNNING
        /\ IF ~dependencies_satisfied(step, execution)
           THEN /\ engine' = [engine EXCEPT !.index = @ + 1]
                /\ UNCHANGED <<execution, started, ended, compensated>>
           ELSE \E failed_step_id \in r.failed \cup {execution.failed_step_id} :
                /\ r.failed # {} => failed_step_id \in r.failed
                /\ started' = started \o r.started
                /\ ended' = ended \o r.ended
                /\ IF r.result # "none"
                   THEN /\ engine' = [engine EXCEPT !.index = @ + 1]
                        /\ execution' =
                               [execution EXCEPT
                                   !.current_step_id = step.step_id,
                                   !.completed_steps = completed_steps,
                                   !.status = IF r.failed = {} THEN @ ELSE FAILED,
                                   !.failed_step_id = failed_step_id]
                        /\ UNCHANGED compensated
                   ELSE /\ engine' = [engine EXCEPT !.pc = "returned"]
                        /\ execution' =
                               [execution EXCEPT
                                   !.current_step_id = step.step_id,
                                   !.completed_steps = completed_steps,
                                   !.status = IF r.failed = {} THEN @ ELSE COMPENSATED,
                                   !.failed_step_id = failed_step_id]
                        /\ IF r.failed = {} THEN UNCHANGED compensated
                           ELSE \E raising \in Raising(workflow, completed_steps) :
                                    compensated' = compensated \o
                                        compensate(workflow, completed_steps, raising)
        /\ UNCHANGED workflow
        /\ UNCHANGED outside_engine

\* the for loop is left, by its end or by the break on a status that is not
\* RUNNING: execution.complete(output), and execute() returns
WorkflowEngine_complete ==
    /\ engine.pc = "loop"
    /\ engine.index > Len(workflow.steps) \/ execution.status # RUNNING
    /\ execution' = [execution EXCEPT !.status = COMPLETED]
    /\ engine' = [engine EXCEPT !.pc = "returned"]
    /\ UNCHANGED <<workflow, started, ended, compensated>>
    /\ UNCHANGED outside_engine

\* WorkflowWorker._handle_cancellation while _run_execution awaits
\* WorkflowEngine.execute: task.cancel() raises CancelledError at the await the
\* engine stands at, which no except clause of the engine catches (they catch
\* Exception) and _run_execution only logs. The await is that of the event
\* publisher between two iterations, or (in_step) that of the task of the next
\* step, an AGENT_TASK whose dependencies are satisfied.
handle_cancellation(in_step) ==
    /\ engine.pc = "loop"
    /\ execution.status = RUNNING
    /\ IF in_step
       THEN /\ engine.index <= Len(workflow.steps)
            /\ workflow.steps[engine.index].step_type = AGENT_TASK
            /\ dependencies_satisfied(workflow.steps[engine.index], execution)
            /\ execution' = [execution EXCEPT
                                !.current_step_id = workflow.steps[engine.index].step_id]
            /\ started' = Append(started, workflow.steps[engine.index].step_id)
       ELSE UNCHANGED <<execution, started>>
    /\ engine' = [engine EXCEPT !.pc = "cancelled"]
    /\ UNCHANGED <<workflow, ended, compensated>>
    /\ UNCHANGED outside_engine

\* ------------------------------------------------------------- NATSClient
\* The broker behind NATSClient: a stream keeps every message in the order of
\* publication; ConsumerConfig.durable_name names a consumer, which has one
\* position in the stream; the subscribers of one consumer form its deliver
\* group and each delivery of the consumer goes to one of them.  Deliveries
\* are acknowledged by message_handler and are not repeated here.
Message(subject, task_id, worker_id, body) ==
    [subject |-> subject, task_id |-> task_id, worker_id |-> worker_id, body |-> body]

NATSClient_publish(s, message) == Append(s, message)

Consumer(subject, queue, handler, subscriber) ==
    [subject |-> subject, deliver_group |-> queue, handler |-> handler,
     subscribers |-> {subscriber}, delivered |-> 0]

NATSClient_subscribe_queue(cs, subject, queue, handler, durable, subscriber) ==
    IF queue \in DOMAIN cs
    THEN [cs EXCEPT ![queue].subscribers = @ \cup {subscriber}]
    ELSE cs @@ (queue :> Consumer(subject, queue, handler, subscriber))

NATSClient_subscribe(cs, subject, queue, handler, durable, subscriber) ==
    IF durable \in DOMAIN cs
    THEN [cs EXCEPT ![durable].subscribers = @ \cup {subscriber}]
    ELSE cs @@ (durable :> Consumer(subject, queue, handler, subscriber))

\* a subject against the pattern of a subscription; "RESULTS.*" is the one
\* wildcard among the subscriptions below
subject_matches(pattern, subject) ==
    IF pattern = "RESULTS.*"
    THEN subject \in {"RESULTS.completed", "RESULTS.failed"}
    ELSE pattern = subject

\* the index in the stream of the next message of a consumer, 0 if it has none
next_delivery(consumer) ==
    LET waiting == {k \in (consumer.delivered + 1)..Len(stream) :
                        subject_matches(consumer.subject, stream[k].subject)}
    IN  IF waiting = {} THEN 0 ELSE CHOOSE k \in waiting : \A j \in waiting : k <= j

\* the consumers that deliver to a handler of a subscriber
consumers_of(handler, subscriber) ==
    {durable \in DOMAIN consumers :
        /\ consumers[durable].handler = handler
        /\ subscriber \in consumers[durable].subscribers
        /\ next_delivery(consumers[durable]) # 0}

workers_not_started ==
    /\ stream = <<>>
    /\ consumers = <<>>
    /\ workers = <<>>
    /\ redis = <<>>
    /\ executors = <<>>

\* ------------------------------------------------------------ AgentWorker
AgentWorker(concurrency) ==
    [concurrency |-> concurrency, semaphore |-> concurrency, handlers |-> <<>>,
     nats |-> "connected"]

AgentWorker_start(worker_id, concurrency) ==
    /\ worker_id \notin DOMAIN workers
    /\ workers' = workers @@ (worker_id :> AgentWorker(concurrency))
    /\ consumers' = NATSClient_subscribe(consumers, "TASKS.created", "workers-" \o worker_id,
                                         "_handle_task", "worker-" \o worker_id, worker_id)
    /\ UNCHANGED <<stream, redis, executors>>
    /\ UNCHANGED outside_workers

\* "async with self._semaphore" enters when the semaphore has a permit
can_acquire_always(worker) == TRUE

can_acquire(worker) == worker.semaphore > 0

\* message_handler calls _handle_task with the next message of the consumer:
\* the coroutine stands before "async with self._semaphore"
handle_task(worker_id) ==
    /\ worker_id \in DOMAIN workers
    /\ workers[worker_id].nats = "connected"
    /\ \E durable \in consumers_of("_handle_task", worker_id) :
         LET k == next_delivery(consumers[durable])
         IN  /\ stream[k].task_id \notin DOMAIN workers[worker_id].handlers
             /\ consumers' = [consumers EXCEPT ![durable].delivered = k]
             /\ workers' = [workers EXCEPT ![worker_id].handlers =
                                @ @@ (stream[k].task_id :> "waiting")]
    /\ UNCHANGED <<stream, redis, executors>>
    /\ UNCHANGED outside_workers

\* _handle_task takes a permit and calls _execute_task
handle_task_acquire(worker_id, task_id) ==
    /\ worker_id \in DOMAIN workers
    /\ task_id \in DOMAIN workers[worker_id].handlers
    /\ workers[worker_id].handlers[task_id] = "waiting"
    /\ can_acquire(workers[worker_id])
    /\ workers' = [workers EXCEPT ![worker_id].semaphore = @ - 1,
                                  ![worker_id].handlers[task_id] = "_execute_task"]
    /\ UNCHANGED <<stream, consumers, redis, executors>>
    /\ UNCHANGED outside_workers

\* _execute_task got its agent and publishes TASKS.started; on a closed
\* connection publish raises, _publish_task_failed in the except clause of
\* _handle_task raises too, and "async with" gives the permit back
publish_task_started(worker_id, task_id) ==
    /\ worker_id \in DOMAIN workers
    /\ task_id \in DOMAIN workers[worker_id].handlers
    /\ workers[worker_id].handlers[task_id] = "_execute_task"
    /\ IF workers[worker_id].nats = "connected"
       THEN /\ stream' = NATSClient_publish(stream,
                             Message("TASKS.started", task_id, worker_id, ""))
            /\ workers' = [workers EXCEPT ![worker_id].handlers[task_id] = "execute_task"]
       ELSE /\ stream' = stream
            /\ workers' = [workers EXCEPT ![worker_id].semaphore = @ + 1,
                                          ![worker_id].handlers[task_id] = "returned"]
    /\ UNCHANGED <<consumers, redis, executors>>
    /\ UNCHANGED outside_workers

\* how _execute_task ends: the agent's result is a success, or it is not, or
\* an exception is raised, which _handle_task catches
Ends == {"success", "error", "raised"}

\* _execute_task ends, its result is published (unless the connection is
\* closed: publish raises) and "async with" gives the permit back, on a
\* return and on an exception alike
handle_task_release(worker_id, task_id, end) ==
    /\ worker_id \in DOMAIN workers
    /\ task_id \in DOMAIN workers[worker_id].handlers
    /\ \/ workers[worker_id].handlers[task_id] = "execute_task"
       \/ workers[worker_id].handlers[task_id] = "_execute_task" /\ end = "raised"
    /\ stream' = IF workers[worker_id].nats # "connected" THEN stream
                  ELSE NATSClient_publish(stream,
                    IF end = "success"
                    THEN Message("RESULTS.completed", task_id, worker_id, "result")
                    ELSE Message("RESULTS.failed", task_id, worker_id, "error"))
    /\ workers' = [workers EXCEPT ![worker_id].semaphore = @ + 1,
                                  ![worker_id].handlers[task_id] = "returned"]
    /\ UNCHANGED <<consumers, redis, executors>>
    /\ UNCHANGED outside_workers

\* the executions that the closing of the subscriptions cancels: those whose
\* _handle_task runs inside the callback of a subscription, all or none of
\* which the client cancels
Cancelled(worker) ==
    {{}, {task_id \in DOMAIN worker.handlers : worker.handlers[task_id] # "returned"}}

\* AgentWorker.stop: _active_tasks is empty (nothing is ever put into it), so
\* there is nothing to wait for; the connections are closed
AgentWorker_stop(worker_id) ==
    /\ worker_id \in DOMAIN workers
    /\ workers[worker_id].nats = "connected"
    /\ \E cancelled \in Cancelled(workers[worker_id]) :
         workers' = [workers EXCEPT
            ![worker_id].nats = "closed",
            ![worker_id].semaphore =
                @ + Cardinality({task_id \in cancelled :
                        workers[worker_id].handlers[task_id] # "waiting"}),
            ![worker_id].handlers =
                [task_id \in DOMAIN @ |->
                    IF task_id \in cancelled THEN "returned" ELSE @[task_id]]]
    /\ UNCHANGED <<stream, consumers, redis, executors>>
    /\ UNCHANGED outside_workers

\* ------------------------------------------------------- api/routes/tasks
\* POST /tasks: the record is stored with status "pending", TASKS.created is published
create_task(task_id) ==
    /\ task_id \notin DOMAIN redis
    /\ \A k \in 1..Len(stream) : stream[k].task_id # task_id
    /\ redis' = redis @@ (task_id :> "pending")
    /\ stream' = NATSClient_publish(stream, Message("TASKS.created", task_id, "", ""))
    /\ UNCHANGED <<consumers, workers, executors>>
    /\ UNCHANGED outside_workers

\* the record of a task with a new status, when the record exists
set_status(r, task_id, status) ==
    IF task_id \in DOMAIN r THEN [r EXCEPT ![task_id] = status] ELSE r

\* DELETE /tasks/{task_id}
cancel_task(task_id) ==
    /\ redis' = set_status(redis, task_id, "cancelled")
    /\ stream' = NATSClient_publish(stream, Message("TASKS.cancelled", task_id, "", ""))
    /\ UNCHANGED <<consumers, workers, executors>>
    /\ UNCHANGED outside_workers

\* ---------------------------------------------------------- ResultHandler
ResultHandler_start ==
    /\ "result-handler-completed" \notin DOMAIN consumers
    /\ consumers' =
         NATSClient_subscribe(
           NATSClient_subscribe(
             NATSClient_subscribe(consumers, "RESULTS.completed", "result-handlers",
                                  "_handle_completed", "result-handler-completed", "result-handler"),
             "RESULTS.failed", "result-handlers",
             "_handle_failed", "result-handler-failed", "result-handler"),
           "TASKS.started", "result-handlers",
           "_handle_started", "result-handler-started", "result-handler")
    /\ UNCHANGED <<stream, workers, redis, executors>>
    /\ UNCHANGED outside_workers

\* message_handler calls a handler of the ResultHandler with the next message
\* of its consumer; the handler stores the status in the record of the task
handle_completed ==
    /\ \E durable \in consumers_of("_handle_completed", "result-handler") :
         LET k == next_delivery(consumers[durable])
         IN  /\ consumers' = [consumers EXCEPT ![durable].delivered = k]
             /\ redis' = set_status(redis, stream[k].task_id, "completed")
    /\ UNCHANGED <<stream, workers, executors>>
    /\ UNCHANGED outside_workers

handle_failed ==
    /\ \E durable \in consumers_of("_handle_failed", "result-handler") :
         LET k == next_delivery(consumers[durable])
         IN  /\ consumers' = [consumers EXCEPT ![durable].delivered = k]
             /\ redis' = set_status(redis, stream[k].task_id, "failed")
    /\ UNCHANGED <<stream, workers, executors>>
    /\ UNCHANGED outside_workers

handle_started ==
    /\ \E durable \in consumers_of("_handle_started", "result-handler") :
         LET k == next_delivery(consumers[durable])
         IN  /\ consumers' = [consumers EXCEPT ![durable].delivered = k]
             /\ redis' = set_status(redis, stream[k].task_id, "running")
    /\ UNCHANGED <<stream, workers, executors>>
    /\ UNCHANGED outside_workers

\* ------------------------------------------- WorkflowWorker, MockTaskExecutor
\* a WorkflowWorker has a MockTaskExecutor, whose _pending_results is empty
WorkflowWorker_start(worker_id) ==
    /\ worker_id \notin DOMAIN executors
    /\ executors' = executors @@ (worker_id :> <<>>)
    /\ consumers' = NATSClient_subscribe(consumers, "RESULTS.*", "workflow-workers-results",
                                         "_handle_task_result",
                                         "workflow-worker-results-" \o worker_id, worker_id)
    /\ UNCHANGED <<stream, workers, redis>>
    /\ UNCHANGED outside_workers

\* MockTaskExecutor.execute up to its wait: the future of the task is created
\* and TASKS.created is published.  A future stays in the model when execute
\* pops it, with what became of it.
MockTaskExecutor_execute(worker_id, task_id) ==
    /\ worker_id \in DOMAIN executors
    /\ \A w \in DOMAIN executors : task_id \notin DOMAIN executors[w]
    /\ \A k \in 1..Len(stream) : stream[k].task_id # task_id
    /\ executors' = [executors EXCEPT ![worker_id] = @ @@ (task_id :> "pending")]
    /\ stream' = NATSClient_publish(stream, Message("TASKS.created", task_id, "", ""))
    /\ UNCHANGED <<consumers, workers, redis>>
    /\ UNCHANGED outside_workers

\* the future after MockTaskExecutor.handle_result was called with a message
handle_result(pending_results, message) ==
    IF /\ message.task_id \in DOMAIN pending_results
       /\ pending_results[message.task_id] = "pending"
    THEN [pending_results EXCEPT ![message.task_id] =
              IF message.body = "error" THEN "exception" ELSE "result"]
    ELSE pending_results

\* message_handler calls _handle_task_result with the next message of the consumer
handle_task_result(worker_id) ==
    /\ worker_id \in DOMAIN executors
    /\ \E durable \in consumers_of("_handle_task_result", worker_id) :
         LET k == next_delivery(consumers[durable])
         IN  /\ consumers' = [consumers EXCEPT ![durable].delivered = k]
             /\ executors' = [executors EXCEPT ![worker_id] = handle_result(@, stream[k])]
    /\ UNCHANGED <<stream, workers, redis>>
    /\ UNCHANGED outside_workers

\* asyncio.wait_for gives up on the future after timeout_seconds
execute_timeout(worker_id, task_id) ==
    /\ worker_id \in DOMAIN executors
    /\ task_id \in DOMAIN executors[worker_id]
    /\ executors[worker_id][task_id] = "pending"
    /\ executors' = [executors EXCEPT ![worker_id][task_id] = "timeout"]
    /\ UNCHANGED <<stream, consumers, workers, redis>>
    /\ UNCHANGED outside_workers

\* ---------------------------------------------------------- environment
Capabilities == {"a"}

\* the AgentDefinition objects the callers register
AgentDefinitions ==
    {[agent_id |-> 1, capabilities |-> {}],
     [agent_id |-> 2, capabilities |-> {"a"}]}

\* the Task objects the callers submit
SubmittedPriorities == {NORMAL, HIGH}
NewTasks ==
    {Task(p, c, m) : p \in SubmittedPriorities, c \in SUBSET Capabilities,
                     m \in 0..MaxRetries}

\* the error strings handed to fail_task
Errors == {"timeout", "policy violation"}

\* Orchestrator.__init__ and AgentSupervisor.__init__
Orchestrator_init ==
    /\ tasks = <<>>
    /\ instances = <<>>
    /\ queues = EmptyQueues
    /\ pending_tasks = {}
    /\ agents = <<>>
    /\ agent_definitions = <<>>
    /\ supervisor_agents = {}
    /\ events = <<>>
    /\ now = 1        \* a reading of the clock is never None
    /\ got = None

\* _parse_text_tool_call has not been called
parse_not_called ==
    /\ content = Content("empty", null)
    /\ available_tools = {}
    /\ text_tool_call = absent

\* every component as its constructor leaves it
Init ==
    /\ Orchestrator_init
    /\ parse_not_called
    /\ ToolRegistry_init
    /\ AgentRuntime_init(AgentConstraints(25, 100000, Unset, {}))
    /\ workflow_not_started(WorkflowDefinition(<<>>))
    /\ workers_not_started

\* the calls made on the Orchestrator, and its dispatch loop
OrchestratorNext(definitions, new_tasks, num_tasks) ==
    \/ \E definition \in definitions :
           /\ Len(instances) < NumInstances
           /\ register_agent(Len(instances) + 1, definition)
    \/ \E instance_id \in DOMAIN instances : unregister_agent(instance_id)
    \/ \E task \in new_tasks :
           /\ Len(tasks) < num_tasks
           /\ submit_task(Len(tasks) + 1, task)
    \/ dispatch_loop
    \/ \E task_id \in DOMAIN tasks : complete_task(task_id)
    \/ \E task_id \in DOMAIN tasks, error \in Errors : fail_task(task_id, error)

\* the calls made on the AgentSupervisor, its health check loop and the clock
SupervisorNext ==
    \/ \E instance_id \in DOMAIN instances : register(instance_id)
    \/ \E instance_id \in supervisor_agents : unregister(instance_id)
    \/ \E instance_id \in DOMAIN instances : heartbeat(instance_id)
    \/ check_health
    \/ Tick

\* the Orchestrator alone
Next == OrchestratorNext(AgentDefinitions, NewTasks, NumTasks)

Spec == Init /\ [][Next]_vars

\* the Orchestrator with instances whose ids (uuid4) come in any order and
\* whose metrics are recorded by their holders
InstanceIds == 1..NumInstances
Recorded(instance) == instance.tasks_completed + instance.tasks_failed

FindAgentNext ==
    \/ \E instance_id \in InstanceIds :
           register_agent(instance_id, [agent_id |-> 1, capabilities |-> {}])
    \/ \E instance_id \in DOMAIN instances, execution_time_ms \in 1..MaxExecutionTime,
          succeeded \in BOOLEAN :
           /\ Recorded(instances[instance_id]) < MaxRecorded
           /\ record_task_completion(instance_id, execution_time_ms, succeeded)
    \/ /\ Len(tasks) < FindAgentTasks
       /\ submit_task(Len(tasks) + 1, Task(NORMAL, {}, 0))
    \/ dispatch_loop
    \/ \E task_id \in DOMAIN tasks : complete_task(task_id)

SpecFindAgent == Init /\ [][FindAgentNext]_vars

\* the Orchestrator and the AgentSupervisor over the same AgentInstance objects
SupervisedDefinitions == {[agent_id |-> 1, capabilities |-> {}]}
SupervisedNewTasks == {Task(NORMAL, {}, m) : m \in 0..MaxRetries}

SupervisedNext ==
    \/ OrchestratorNext(SupervisedDefinitions, SupervisedNewTasks, SupervisedTasks)
    \/ SupervisorNext

SpecSupervised == Init /\ [][SupervisedNext]_vars

\* a TaskQueue alone, as test_priority_queue_ordering drives it
put(task_id, task) ==
    /\ tasks' = IF task_id \in DOMAIN tasks THEN tasks ELSE tasks @@ (task_id :> task)
    /\ queues' = TaskQueue_put(queues, task_id, task)
    /\ UNCHANGED outside_router
    /\ UNCHANGED <<instances, pending_tasks, agents, agent_definitions,
                   supervisor_agents, events, now, got>>

get ==
    /\ got' = TaskQueue_get(queues).task
    /\ queues' = TaskQueue_get(queues).queues
    /\ UNCHANGED outside_router
    /\ UNCHANGED <<tasks, instances, pending_tasks, agents, agent_definitions,
                   supervisor_agents, events, now>>

QueueNext ==
    \/ \E priority \in Range(TaskPriority) :
           /\ Len(tasks) < QueueTasks
           /\ put(Len(tasks) + 1, Task(priority, {}, 0))
    \/ \E task_id \in DOMAIN tasks :
           /\ qsize(queues) < QueueTasks
           /\ put(task_id, tasks[task_id])
    \/ get

SpecQueue == Init /\ [][QueueNext]_vars

\* the Orchestrator with its dispatch loop task running: start() created it and
\* the event loop resumes it after every sleep, so an iteration that has a task
\* to pop is eventually taken
DispatchNewTasks ==
    {Task(p, c, 0) : p \in SubmittedPriorities, c \in SUBSET Capabilities}

DispatchNext == OrchestratorNext(AgentDefinitions, DispatchNewTasks, DispatchTasks)

SpecDispatch == Init /\ [][DispatchNext]_vars /\ WF_vars(dispatch_loop)

\* _parse_text_tool_call alone, called once on a content and a list of names
ToolNames == {"final_answer", "search", "shell"}
ArgKeys == <<"name", "answer">>
ArgStrings == {"search", "42"}

RECURSIVE members_of(_, _)
\* the members of the dict that gives key k the value f[k], in the order of keys
members_of(f, keys) ==
    IF keys = <<>> THEN <<>>
    ELSE (IF f[Head(keys)] = absent THEN <<>>
          ELSE <<Member(Head(keys), f[Head(keys)])>>) \o members_of(f, Tail(keys))

StringValues == {JString(v) : v \in ArgStrings}
FlatObjects ==
    {JObject(members_of(f, ArgKeys)) :
        f \in [Range(ArgKeys) -> StringValues \cup {absent}]}
\* the JSON objects A: empty, flat, nested, with and without a "name" key
ArgumentObjects ==
    {JObject(members_of(f, ArgKeys)) :
        f \in [Range(ArgKeys) -> StringValues \cup FlatObjects \cup {absent}]}

\* the document {"name": X, <key>: A}
ToolCallDoc(name, key, arguments) ==
    JObject(<<Member("name", JString(name)), Member(key, arguments)>>)

ParsedContents ==
    {Content("empty", null), Content("text", null)} \cup
    {Content(form, ToolCallDoc(name, key, arguments)) :
        form \in {"json", "prose_json", "fenced_json", "fenced"},
        name \in ToolNames,
        key \in {"arguments", "parameters"},
        arguments \in ArgumentObjects}

\* `allowed_tools or []` of the callers
AllowLists == {{}, {"search"}, {"search", "final_answer"}}

ParserInit ==
    /\ Orchestrator_init
    /\ ToolRegistry_init
    /\ AgentRuntime_init(AgentConstraints(25, 100000, Unset, {}))
    /\ workflow_not_started(WorkflowDefinition(<<>>))
    /\ workers_not_started
    /\ content \in ParsedContents
    /\ available_tools \in AllowLists
    /\ text_tool_call = absent

SpecParser == ParserInit /\ [][parse]_vars

\* a ToolRegistry and a ToolExecutor alone, as test_tools.py drives them
ToolsInit ==
    /\ Orchestrator_init
    /\ parse_not_called
    /\ AgentRuntime_init(AgentConstraints(25, 100000, Unset, {}))
    /\ workflow_not_started(WorkflowDefinition(<<>>))
    /\ workers_not_started
    /\ registry = <<>>
    /\ executor_max_retries \in 0..MaxToolRetries
    /\ invocations = <<>>
    /\ tool_result = null

ToolsNext ==
    \/ \E name \in ToolNames, retry_count \in 0..MaxToolRetries :
           ToolRegistry_register(name, ToolConfig(retry_count))
    \/ \E name \in ToolNames : ToolRegistry_unregister(name)
    \/ \E name \in ToolNames, outcomes \in [1..(1 + MaxToolRetries) -> Outcomes] :
           execute(name, outcomes)

SpecTools == ToolsInit /\ [][ToolsNext]_vars

\* an AgentRuntime alone, with a ToolRegistry that holds every tool and a
\* ToolExecutor built with its defaults
RuntimeConstraints ==
    {AgentConstraints(max_iterations, max_tokens_per_task, allowed_tools, denied_tools) :
        max_iterations \in 1..MaxIterations,
        max_tokens_per_task \in 2..MaxTokensPerTask,
        allowed_tools \in {Unset, Listed({}), Listed({"search"}),
                           Listed({"search", "final_answer"})},
        denied_tools \in {{}, {"search"}}}

RuntimeInit ==
    /\ Orchestrator_init
    /\ parse_not_called
    /\ registry = [name \in ToolNames |-> ToolConfig(0)]
    /\ executor_max_retries = 0
    /\ invocations = <<>>
    /\ tool_result = null
    /\ \E c \in RuntimeConstraints : AgentRuntime_init(c)
    /\ workflow_not_started(WorkflowDefinition(<<>>))
    /\ workers_not_started

\* the arguments of the structured tool calls of the LLM
CallArguments ==
    {malformed, JObject(<<>>), JObject(<<Member("answer", JString("42"))>>)}

LLMToolCalls == {LLMToolCall(name, arguments) : name \in ToolNames, arguments \in CallArguments}

ToolCallLists ==
    UNION {[1..n -> LLMToolCalls] : n \in 1..MaxToolCalls}

\* the contents of the LLM responses without structured tool calls
TextArguments ==
    {JObject(<<>>),
     JObject(<<Member("answer", JString("42"))>>),
     JObject(<<Member("name", JString("final_answer"))>>)}

ResponseContents ==
    {Content("empty", null), Content("text", null)} \cup
    {Content("json", ToolCallDoc(name, "arguments", arguments)) :
        name \in ToolNames, arguments \in TextArguments}

LLMResponses ==
    {LLMResponse(tokens, tool_calls, Content("empty", null)) :
        tokens \in 1..MaxResponseTokens, tool_calls \in ToolCallLists} \cup
    {LLMResponse(tokens, <<>>, c) :
        tokens \in 1..MaxResponseTokens, c \in ResponseContents}

RuntimeNext ==
    \/ execute_task(1)
    \/ llm_complete
    \/ llm_error
    \/ \E response \in LLMResponses, outcome \in {"ok", "error"} :
           llm_response(response, outcome)

SpecRuntime == RuntimeInit /\ [][RuntimeNext]_vars

\* the AgentRuntime and the callers that stop it
RuntimeStopNext ==
    \/ RuntimeNext
    \/ \E graceful \in BOOLEAN : AgentRuntime_stop(graceful)

SpecRuntimeStop == RuntimeInit /\ [][RuntimeStopNext]_vars

\* steps for the workflow engine: the top-level steps are named by their place
\* in the definition, the children of step s are s1 and s2
StepIds == <<"a", "b", "c">>
ChildId(step_id, k) == step_id \o (IF k = 1 THEN "1" ELSE "2")
TopStepTypes == {AGENT_TASK, PARALLEL, CONDITIONAL, WAIT, SUBPROCESS}

\* n children, each an AGENT_TASK; the first depends on one of depends_ons
Children(step_id, n, compensation, depends_ons) ==
    {[k \in 1..n |->
         WorkflowStep(ChildId(step_id, k), AGENT_TASK, <<>>,
                      IF k = 1 THEN depends_on ELSE {}, compensation)] :
        depends_on \in depends_ons}

\* the one child of a CONDITIONAL step that is a PARALLEL step of two tasks
Nested(step_id, compensation) ==
    {<<WorkflowStep(ChildId(step_id, 1), PARALLEL, children, {}, compensation)>> :
        children \in Children(ChildId(step_id, 1), 2, compensation, {{}})}

\* a top-level step depends on nothing, on a top-level step or on a child of
\* the first step
TopSteps(step_id) ==
    UNION {
        {WorkflowStep(step_id, step_type, children, depends_on, compensation) :
            children \in
                CASE step_type = PARALLEL ->
                         Children(step_id, 2, compensation, {{}, {"b"}})
                  [] step_type = CONDITIONAL ->
                         UNION {Children(step_id, n, compensation, {{}, {"b"}}) :
                                   n \in 0..2}
                             \cup Nested(step_id, compensation)
                  [] OTHER -> {<<>>},
            depends_on \in {{}, {"a"}, {"b"}, {"a1"}}} :
        step_type \in TopStepTypes, compensation \in BOOLEAN}

WorkflowDefinitions ==
    UNION {
        {WorkflowDefinition(steps) :
            steps \in {ss \in [1..n -> UNION {TopSteps(StepIds[k]) : k \in 1..n}] :
                          \A k \in 1..n : ss[k].step_id = StepIds[k]}} :
        n \in 1..MaxSteps}

\* the steps whose own work is done when step is run: an AGENT_TASK itself, the
\* tasks below a PARALLEL or CONDITIONAL step
RECURSIVE working(_)
working(step) ==
    IF step.step_type = AGENT_TASK THEN {step.step_id}
    ELSE UNION {working(step.children[k]) : k \in 1..Len(step.children)}


Conditions(step) ==
    [{step.step_id} -> IF step.step_type = CONDITIONAL THEN BOOLEAN ELSE {TRUE}]

EngineInit ==
    /\ Orchestrator_init
    /\ parse_not_called
    /\ ToolRegistry_init
    /\ AgentRuntime_init(AgentConstraints(25, 100000, Unset, {}))
    /\ \E d \in WorkflowDefinitions : workflow_not_started(d)
    /\ workers_not_started

EngineNext ==
    \/ WorkflowEngine_execute
    \/ /\ engine.pc = "loop"
       /\ engine.index <= Len(workflow.steps)
       /\ \E outcome \in [working(workflow.steps[engine.index]) -> StepOutcomes],
             condition \in Conditions(workflow.steps[engine.index]) :
              WorkflowEngine_step(outcome, condition)
    \/ WorkflowEngine_complete

SpecEngine == EngineInit /\ [][EngineNext]_vars

\* a WorkflowWorker that runs one execution and may be told to cancel it
WorkerNext ==
    \/ EngineNext
    \/ \E in_step \in BOOLEAN : handle_cancellation(in_step)

SpecWorkflowWorker == EngineInit /\ [][WorkerNext]_vars

\* the worker processes: AgentWorkers that take the tasks the API publishes
WorkerIds == {<<"w1", "w2", "w3">>[k] : k \in 1..NumWorkers}

PublishedTaskIds == 1..PublishedTasks

AgentWorkerSteps(worker_ids) ==
    \/ \E worker_id \in worker_ids, concurrency \in 1..MaxConcurrency :
           AgentWorker_start(worker_id, concurrency)
    \/ \E worker_id \in worker_ids : handle_task(worker_id)
    \/ \E worker_id \in worker_ids, task_id \in PublishedTaskIds :
           handle_task_acquire(worker_id, task_id)
    \/ \E worker_id \in worker_ids, task_id \in PublishedTaskIds :
           publish_task_started(worker_id, task_id)
    \/ \E worker_id \in worker_ids, task_id \in PublishedTaskIds, end \in Ends :
           handle_task_release(worker_id, task_id, end)

AgentWorkersNext ==
    \/ \E task_id \in PublishedTaskIds : create_task(task_id)
    \/ AgentWorkerSteps(WorkerIds)

SpecAgentWorkers == Init /\ [][AgentWorkersNext]_vars

\* the API and one AgentWorker that is stopped
AgentWorkerStopNext ==
    \/ \E task_id \in PublishedTaskIds : create_task(task_id)
    \/ AgentWorkerSteps({"w1"})
    \/ AgentWorker_stop("w1")

SpecAgentWorkerStop == Init /\ [][AgentWorkerStopNext]_vars

\* the API, one AgentWorker and the ResultHandler; a task is cancelled once
cancelled(task_id) ==
    \E k \in 1..Len(stream) :
        stream[k].subject = "TASKS.cancelled" /\ stream[k].task_id = task_id

ResultHandlerNext ==
    \/ \E task_id \in PublishedTaskIds : create_task(task_id)
    \/ \E task_id \in PublishedTaskIds : ~cancelled(task_id) /\ cancel_task(task_id)
    \/ AgentWorkerSteps({"w1"})
    \/ ResultHandler_start
    \/ handle_started
    \/ handle_completed
    \/ handle_failed

SpecResultHandler == Init /\ [][ResultHandlerNext]_vars

\* WorkflowWorkers whose executors publish the tasks of their steps, and one
\* AgentWorker that executes them
WorkflowWorkersNext ==
    \/ \E worker_id \in WorkerIds : WorkflowWorker_start(worker_id)
    \/ \E worker_id \in WorkerIds, task_id \in PublishedTaskIds :
           MockTaskExecutor_execute(worker_id, task_id)
    \/ AgentWorkerSteps({"w1"})
    \/ \E worker_id \in WorkerIds : handle_task_result(worker_id)
    \/ \E worker_id \in WorkerIds, task_id \in PublishedTaskIds :
           execute_timeout(worker_id, task_id)

\* the broker goes on delivering to a consumer that has a message to deliver
SpecWorkflowWorkers ==
    /\ Init
    /\ [][WorkflowWorkersNext]_vars
    /\ \A worker_id \in WorkerIds : WF_vars(handle_task_result(worker_id))

\* ================================================================ claims
NonEmptyLevels(qs) == {p \in Range(TaskPriority) : qs[p] # <<>>}
Highest(levels) == CHOOSE p \in levels : \A q \in levels : q <= p
Terminal == {COMPLETED, FAILED, CANCELLED, TIMEOUT}
TerminalEvents == {"task.completed", "task.failed"}
EventsOf(log, aggregate_id) ==
    IF aggregate_id \in DOMAIN log
    THEN [k \in 1..Len(log[aggregate_id]) |-> log[aggregate_id][k].event_type]
    ELSE <<>>
TerminalEventCount(log, aggregate_id) ==
    Cardinality({k \in 1..Len(EventsOf(log, aggregate_id)) :
                    EventsOf(log, aggregate_id)[k] \in TerminalEvents})
Queued(qs, task_id) == \E p \in Range(TaskPriority) : task_id \in Range(qs[p])

\* C1: every TaskQueue.get returns the head of the highest priority level
\* (CRITICAL > HIGH > NORMAL > LOW) that is non-empty when it is called, a task
\* of that priority, and returns None exactly when every level is empty.
C1_GetHighestPriority ==
    [][get =>
        IF NonEmptyLevels(queues) = {}
        THEN got' = None
        ELSE /\ got' # None
             /\ got' = Head(queues[Highest(NonEmptyLevels(queues))])
             /\ tasks[got'].priority = Highest(NonEmptyLevels(queues))
             /\ queues' = [queues EXCEPT
                    ![Highest(NonEmptyLevels(queues))] = Tail(@)]]_vars

\* a get returned a CRITICAL task while tasks wait at two lower levels
C1_Witness ==
    /\ got # None
    /\ tasks[got].priority = CRITICAL
    /\ ~Queued(queues, got)
    /\ queues[HIGH] # <<>>
    /\ queues[LOW] # <<>>

\* C2: an instance that the dispatch loop gives a task to is IDLE with no current
\* task just before, is one of _agents, and the task's required_capabilities are
\* a subset of the capabilities of the instance's agent definition.
C2_AssignOnlyAvailableCapable ==
    [][\A i \in DOMAIN instances :
          (/\ instances'[i].current_task_id # None
           /\ instances'[i].current_task_id # instances[i].current_task_id)
          => /\ instances[i].status = IDLE
             /\ instances[i].current_task_id = None
             /\ i \in Range(agents)
             /\ instances[i].agent_definition_id \in DOMAIN agent_definitions
             /\ tasks[instances'[i].current_task_id].required_capabilities \subseteq
                  agent_definitions[instances[i].agent_definition_id].capabilities]_vars

\* a task that requires a capability is running on an instance while an instance
\* without that capability is idle
C2_Witness ==
    \E i, j \in Range(agents) :
        /\ instances[i].current_task_id # None
        /\ instances[i].status = RUNNING
        /\ tasks[instances[i].current_task_id].required_capabilities = {"a"}
        /\ tasks[instances[i].current_task_id].status = ASSIGNED
        /\ is_available(instances[j])
        /\ agent_definitions[instances[j].agent_definition_id].capabilities = {}

\* C3: a task whose status is COMPLETED, FAILED, CANCELLED or TIMEOUT keeps that
\* status in every later step.
C3_TerminalStatusIsFinal ==
    [][\A t \in DOMAIN tasks :
          tasks[t].status \in Terminal => tasks'[t].status = tasks[t].status]_vars

\* C4: the number of terminal events (task.completed, task.failed) filed under a
\* task's id grows by one in exactly the steps in which the task's status becomes
\* terminal, and never exceeds one; no terminal event is filed under another id.
C4_OneTerminalEvent ==
    [][\A t \in DOMAIN tasks' \cup DOMAIN events' :
          LET reaches == /\ t \in DOMAIN tasks
                         /\ tasks[t].status \notin Terminal
                         /\ tasks'[t].status \in Terminal
          IN  /\ TerminalEventCount(events', t) =
                     TerminalEventCount(events, t) + (IF reaches THEN 1 ELSE 0)
              /\ TerminalEventCount(events', t) <= 1]_vars

\* a task that was retried and then failed for good has one terminal event
C4_Witness ==
    \E t \in DOMAIN tasks :
        /\ tasks[t].status = FAILED
        /\ tasks[t].retry_count = 1
        /\ TerminalEventCount(events, t) = 1
        /\ Len(EventsOf(events, t)) >= 4

\* C5: fail_task for a pending task with retry_count < max_retries appends the
\* task to the queue of its priority, adds one to retry_count and emits nothing;
\* with retry_count = max_retries it leaves the queue alone; and retry_count
\* never exceeds max_retries.
C5_RetryRequeues ==
    [][/\ \A t \in DOMAIN tasks, e \in Errors :
              (t \in pending_tasks /\ fail_task(t, e)) =>
                  IF tasks[t].retry_count < tasks[t].max_retries
                  THEN /\ queues' = [queues EXCEPT
                              ![tasks[t].priority] = Append(@, t)]
                       /\ tasks'[t].retry_count = tasks[t].retry_count + 1
                       /\ tasks'[t].priority = tasks[t].priority
                       /\ t \in pending_tasks'
                       /\ events' = events
                  ELSE /\ queues' = queues
                       /\ tasks'[t].retry_count = tasks[t].retry_count
       /\ \A t \in DOMAIN tasks' :
              tasks'[t].retry_count <= tasks'[t].max_retries]_vars

\* a HIGH task failed once while assigned: it waits in the HIGH queue with
\* retry_count 1 and no task.failed event
C5_Witness ==
    \E t \in DOMAIN tasks :
        /\ tasks[t].priority = HIGH
        /\ tasks[t].status = PENDING
        /\ tasks[t].retry_count = 1
        /\ t \in Range(queues[HIGH])
        /\ "task.assigned" \in Range(EventsOf(events, t))
        /\ TerminalEventCount(events, t) = 0

\* the errors the producer of the failure calls non-retriable
NonRetriable == {"policy violation"}

\* C6: fail_task with a non-retriable error marks the task FAILED, does not
\* re-queue it whatever its retry budget, and emits task.failed.
C6_NonRetriableFailsAtOnce ==
    [][\A t \in DOMAIN tasks, e \in NonRetriable :
          (t \in pending_tasks /\ fail_task(t, e)) =>
              /\ tasks'[t].status = FAILED
              /\ queues' = queues
              /\ events' = event_publisher(events, TaskEvent_failed(t))]_vars

\* time since the instance last gave a sign of life: its last heartbeat or, before
\* the first one, its start
Silence(instance) ==
    now - (IF instance.last_heartbeat # None THEN instance.last_heartbeat
           ELSE instance.started_at)

\* C7: a health sweep moves to ERROR every instance registered with the
\* supervisor that is not TERMINATED and from which no heartbeat was received
\* for longer than heartbeat_timeout.
C7_SilentInstanceMovedToError ==
    [][check_health =>
        \A i \in supervisor_agents :
            (/\ instances[i].status # TERMINATED
             /\ Silence(instances[i]) > heartbeat_timeout)
            => instances'[i].status = ERROR]_vars

\* C8: when the supervisor moves an instance that holds a task to ERROR and the
\* task has retry budget left, the task is back in the queue of its priority
\* with retry_count increased by one.
C8_ErrorReleasesTask ==
    [][\A i \in supervisor_agents :
          (/\ instances[i].status # ERROR
           /\ instances'[i].status = ERROR
           /\ instances[i].current_task_id # None
           /\ tasks[instances[i].current_task_id].retry_count
                  < tasks[instances[i].current_task_id].max_retries)
          => /\ tasks'[instances[i].current_task_id].retry_count =
                    tasks[instances[i].current_task_id].retry_count + 1
             /\ Queued(queues', instances[i].current_task_id)]_vars

\* C9: an instance known to the Orchestrator and to the AgentSupervisor has a
\* current_task_id exactly when its status is RUNNING.
C9_CurrentTaskIffRunning ==
    \A i \in Range(agents) \cap supervisor_agents :
        (instances[i].current_task_id # None) <=> (instances[i].status = RUNNING)

\* C10: the dispatch loop gives no task to an instance in ERROR, and no step of
\* the dispatch loop, complete_task or fail_task changes the status of an
\* instance that is in ERROR.
C10_ErrorOnlyClearedBySupervisor ==
    [][\A i \in DOMAIN instances :
          instances[i].status = ERROR =>
              /\ dispatch_loop => instances'[i] = instances[i]
              /\ (\/ dispatch_loop
                  \/ \E t \in DOMAIN tasks : complete_task(t)
                  \/ \E t \in DOMAIN tasks, e \in Errors : fail_task(t, e))
                 => instances'[i].status = ERROR]_vars

\* a registered instance that _find_agent accepts for the task
IdleCovering(t) == \E i \in Range(agents) : is_candidate(tasks[t], i)

\* a registered instance whose definition covers the task's requirement
Covered(t) ==
    \E i \in Range(agents) :
        /\ instances[i].agent_definition_id \in DOMAIN agent_definitions
        /\ tasks[t].required_capabilities \subseteq
               agent_definitions[instances[i].agent_definition_id].capabilities

\* a task waits at a higher priority and _find_agent accepts no instance for it
Overtaken(t) ==
    \E p \in Range(TaskPriority) :
        /\ p > tasks[t].priority
        /\ \E h \in Range(queues[p]) : find_agent(tasks[h]) = None

\* an iteration of the dispatch loop leaves a QUEUED task that no registered
\* instance covers QUEUED and emits nothing for it
UncoveredStaysQueued ==
    [][\A t \in DOMAIN tasks :
          (tasks[t].status = QUEUED /\ ~Covered(t) /\ dispatch_loop) =>
              /\ tasks'[t] = tasks[t]
              /\ Queued(queues', t)
              /\ EventsOf(events', t) = EventsOf(events, t)]_vars

C17_ParserRoundTrip ==
    \A name \in available_tools, arguments \in ArgumentObjects :
        (/\ content = Content("json", ToolCallDoc(name, "arguments", arguments))
         /\ text_tool_call # absent)
        => text_tool_call = [name |-> name, arguments |-> arguments]

\* the error text of the claim, spelled out per name
NotFound(name) ==
    CASE name = "final_answer" -> "Tool 'final_answer' not found"
      [] name = "search" -> "Tool 'search' not found"
      [] name = "shell" -> "Tool 'shell' not found"

\* C18: ToolExecutor.execute for a name that is not in the registry returns
\* success=false with error "Tool 'X' not found", invokes no tool and leaves the
\* registry unchanged.
C18_MissingToolNotFound ==
    [][\A name \in ToolNames, outcomes \in [1..(1 + MaxToolRetries) -> Outcomes] :
          (name \notin DOMAIN registry /\ execute(name, outcomes)) =>
              /\ tool_result'.success = FALSE
              /\ tool_result'.name = name
              /\ tool_result'.error = JString(NotFound(name))
              /\ invocations' = <<>>
              /\ registry' = registry]_vars

\* "shell" was executed while only other tools were registered
C18_Witness ==
    /\ registry # <<>>
    /\ "shell" \notin DOMAIN registry
    /\ tool_result # null
    /\ tool_result.name = "shell"
    /\ tool_result.success = FALSE
    /\ tool_result.error = JString("Tool 'shell' not found")
    /\ invocations = <<>>

\* an LLM response that the loop handles as tool calls none of which ends the
\* task: well-formed structured calls of tools other than final_answer, or a
\* text that parses as a call of such a tool
NonTerminal(response) ==
    IF response.tool_calls # <<>>
    THEN \A k \in 1..Len(response.tool_calls) :
             /\ response.tool_calls[k].name # "final_answer"
             /\ response.tool_calls[k].arguments # malformed
    ELSE LET text_call == parse_text_tool_call(response.content,
                              allowed_or_empty(constraints.allowed_tools))
         IN  text_call # null /\ text_call.name # "final_answer"

\* what follows a response that does not end the task: another LLM call while
\* the budget lasts, the error "Max iterations reached" when it does not
BudgetDecides ==
    IF llm_calls < constraints.max_iterations
    THEN returned' = null /\ frame'.pc = "loop"
    ELSE /\ returned' # null
         /\ ~returned'.success
         /\ returned'.error = JString("Max iterations reached")
         /\ returned'.iterations = constraints.max_iterations

\* C12: execute_task makes at most max_iterations LLM calls and returns
\* iterations <= max_iterations; a response handled as non-terminal tool calls
\* below the token limit is followed by another LLM call while the budget
\* lasts, and ends the task with success=false and the error "Max iterations
\* reached" when it was the response to LLM call number max_iterations; that
\* error is returned after exactly max_iterations LLM calls.
C12_IterationBudget ==
    /\ [](/\ llm_calls <= constraints.max_iterations
          /\ frame.iterations = (IF frame.pc = "idle" THEN 0 ELSE llm_calls)
          /\ returned # null =>
                 /\ returned.iterations <= constraints.max_iterations
                 /\ returned.iterations = llm_calls
                 /\ returned.error = JString("Max iterations reached") =>
                        /\ ~returned.success
                        /\ llm_calls = constraints.max_iterations)
    /\ [][\/ frame.pc # "awaiting"
          \/ BudgetDecides
          \/ \A response \in LLMResponses, outcome \in {"ok", "error"} :
                 ~(/\ frame.total_tokens + response.tokens
                          < constraints.max_tokens_per_task
                   /\ NonTerminal(response)
                   /\ llm_response(response, outcome))]_vars

\* two LLM calls were answered with tool calls that ran, and the task failed on
\* its budget of two iterations
C12_Witness ==
    /\ constraints.max_iterations = 2
    /\ llm_calls = 2
    /\ invocations # <<>>
    /\ returned # null
    /\ ~returned.success
    /\ returned.error = JString("Max iterations reached")
    /\ returned.iterations = 2
    /\ runtime.status = ERROR

\* C13: at the return of every execute_task call, successful or failed,
\* result.total_tokens <= constraints.max_tokens_per_task.
C13_TokensWithinLimit ==
    returned # null => returned.total_tokens <= constraints.max_tokens_per_task

\* the first structured tool call named final_answer, when every call up to it
\* has arguments that json.loads accepts
FinalAnswerAt(response, k) ==
    /\ k \in 1..Len(response.tool_calls)
    /\ response.tool_calls[k].name = "final_answer"
    /\ \A j \in 1..k : response.tool_calls[j].arguments # malformed
    /\ \A j \in 1..(k - 1) : response.tool_calls[j].name # "final_answer"

\* C14: an LLM response that carries a structured tool call named final_answer
\* makes execute_task return in that iteration with success=true and result
\* equal to the call's answer argument, without a further LLM call.
C14_FinalAnswerReturns ==
    [][\A response \in LLMResponses, outcome \in {"ok", "error"} :
          \A k \in 1..MaxToolCalls :
              (llm_response(response, outcome) /\ FinalAnswerAt(response, k)) =>
                  /\ returned' # null
                  /\ returned'.success
                  /\ returned'.result = dict_get(response.tool_calls[k].arguments, "answer")
                  /\ returned'.iterations = llm_calls
                  /\ frame'.pc = "idle"]_vars

\* C15: an LLM response with no structured tool call whose content does not
\* parse as a call of an allowed tool makes execute_task return success=true
\* with result equal to the content and iterations equal to the number of LLM
\* calls made, the status back at IDLE; and whenever execute_task returns
\* success=false the status is ERROR.
C15_PlainContentIsTheAnswer ==
    [][/\ \A response \in LLMResponses, outcome \in {"ok", "error"} :
              (/\ llm_response(response, outcome)
               /\ response.tool_calls = <<>>
               /\ parse_text_tool_call(response.content,
                      allowed_or_empty(constraints.allowed_tools)) = null)
              => /\ returned' # null
                 /\ returned'.success
                 /\ returned'.result = response.content
                 /\ returned'.iterations = llm_calls
                 /\ runtime'.status = IDLE
       /\ (returned = null /\ returned' # null /\ ~returned'.success)
              => runtime'.status = ERROR]_vars

\* the definition lets the runtime use the tool; final_answer is the reserved
\* name that ends the loop
Permitted(name) ==
    \/ name = "final_answer"
    \/ /\ name \notin constraints.denied_tools
       /\ constraints.allowed_tools.given => name \in constraints.allowed_tools.names

\* C16: the runtime offers the LLM no tool and executes no tool that is in
\* denied_tools or, when allowed_tools is set, not in allowed_tools; a response
\* with a tool call that names such a tool ends the task with success=false.
C16_DeniedToolsNeverRun ==
    /\ [](/\ frame.pc # "idle" => \A name \in frame.tool_schemas : Permitted(name)
          /\ frame.pc # "idle" =>
                 \A k \in 1..Len(invocations) : Permitted(invocations[k]))
    /\ [][\A response \in LLMResponses, outcome \in {"ok", "error"} :
             (/\ llm_response(response, outcome)
              /\ \E k \in 1..Len(response.tool_calls) :
                     ~Permitted(response.tool_calls[k].name))
             => /\ returned' # null
                /\ ~returned'.success
                /\ \A k \in 1..Len(invocations') : Permitted(invocations'[k])]_vars

\* the step of a definition with the given id, at any depth
RECURSIVE steps_below(_)
steps_below(step) ==
    {step} \cup UNION {steps_below(step.children[k]) : k \in 1..Len(step.children)}
AllSteps(d) == UNION {steps_below(d.steps[k]) : k \in 1..Len(d.steps)}
step_of(d, step_id) == CHOOSE step \in AllSteps(d) : step.step_id = step_id

\* the ids the last step of the engine handed to _execute_step, and those it
\* appended to completed_steps
NewlyStarted == {started'[k] : k \in (Len(started) + 1)..Len(started')}
AppendedAt(k) ==
    /\ k > Len(execution.completed_steps)
    /\ k <= Len(execution'.completed_steps)
Before(k) == {execution'.completed_steps[j] : j \in 1..(k - 1)}

\* C19: a step is started only when all ids of its depends_on are already in
\* completed_steps; an id appended to completed_steps (a top-level step or a
\* child of a PARALLEL or CONDITIONAL step) has all ids of its depends_on
\* before it in the list, and no id is appended twice
C19_StartedAfterDependencies ==
    [][/\ \A step_id \in NewlyStarted :
              step_of(workflow, step_id).depends_on \subseteq
                  Range(execution.completed_steps)
       /\ \A k \in 1..Len(execution'.completed_steps) :
              /\ AppendedAt(k) =>
                     step_of(workflow, execution'.completed_steps[k]).depends_on
                         \subseteq Before(k)
              /\ execution'.completed_steps[k] \notin Before(k)]_vars

\* every step that was run returned a result
EveryStepSucceeded == \A k \in 1..Len(ended) : ended[k].result = "value"
\* every top-level step depends only on top-level steps listed before it
ListedConsistently(d) ==
    \A k \in 1..Len(d.steps) :
        d.steps[k].depends_on \subseteq {d.steps[j].step_id : j \in 1..(k - 1)}
TopLevel(d) == {d.steps[k].step_id : k \in 1..Len(d.steps)}

\* C20: when every step of a workflow succeeds and each top-level step depends
\* only on steps listed before it, execute() returns with status COMPLETED and
\* the top-level steps are in completed_steps in the definition's listed order
C20_AllStepsCompletedInOrder ==
    (/\ engine.pc = "returned"
     /\ EveryStepSucceeded
     /\ ListedConsistently(workflow))
        => /\ execution.status = COMPLETED
           /\ SelectSeq(execution.completed_steps,
                        LAMBDA step_id : step_id \in TopLevel(workflow))
                  = [k \in 1..Len(workflow.steps) |-> workflow.steps[k].step_id]

\* two steps, the second a PARALLEL step that depends on the first, have run
C20_Witness ==
    /\ engine.pc = "returned"
    /\ EveryStepSucceeded
    /\ ListedConsistently(workflow)
    /\ Len(workflow.steps) = 2
    /\ workflow.steps[2].step_type = PARALLEL
    /\ workflow.steps[2].depends_on = {"a"}
    /\ Len(ended) = 4

\* the step was handed to _execute_step, and it returned a result
WasStarted(step_id) == step_id \in Range(started)
Succeeded(step_id) == Returned(step_id, "value") \in Range(ended)
ChildrenOf(step) == {step.children[k] : k \in 1..Len(step.children)}
ParallelSteps == {step \in Range(workflow.steps) : step.step_type = PARALLEL}

\* C21: a PARALLEL step that was run is appended to completed_steps if and only
\* if every one of its children succeeded; with a failed child the step itself
\* fails and is not recorded as completed
C21_ParallelSucceedsIffChildrenDo ==
    \A step \in ParallelSteps :
        WasStarted(step.step_id) =>
            (step.step_id \in Range(execution.completed_steps)
                <=> \A child \in ChildrenOf(step) : Succeeded(child.step_id))

\* some step was handed to execution.fail
SomeStepFailed == execution.failed_step_id # ""
WithCompensation(ids) == {step_id \in ids : step_of(workflow, step_id).compensation}
CompensatedIds == [k \in 1..Len(compensated) |-> compensated[k].step_id]

\* C22: when a step of a workflow fails (a top-level step or a child of a
\* PARALLEL step), execute() returns with status COMPENSATED, completed_steps
\* holds only steps that succeeded, the children of a completed PARALLEL step
\* among them, and the compensation of every completed step that has one was
\* invoked
C22_FailureEndsCompensated ==
    (engine.pc = "returned" /\ SomeStepFailed)
        => /\ execution.status = COMPENSATED
           /\ \A step_id \in Range(execution.completed_steps) :
                  /\ Succeeded(step_id)
                  /\ \A child \in ChildrenOf(step_of(workflow, step_id)) :
                         step_of(workflow, step_id).step_type = PARALLEL
                             => Succeeded(child.step_id)
           /\ WithCompensation(Range(execution.completed_steps))
                  \subseteq Range(CompensatedIds)

\* the completed steps that have a compensation, last completed first
ToCompensate ==
    SelectSeq(reversed(execution.completed_steps),
              LAMBDA step_id : step_of(workflow, step_id).compensation)

\* C23: when a failed workflow is compensated, the compensation of every step
\* in completed_steps that has one is invoked exactly once, in the reverse of
\* the order of completed_steps, whether or not one of them raises, and the
\* execution ends in COMPENSATED
C23_CompensatedInReverse ==
    (engine.pc = "returned" /\ execution.status \in {FAILED, COMPENSATING, COMPENSATED})
        => /\ execution.status = COMPENSATED
           /\ CompensatedIds = ToCompensate

\* C24: a cancel of a running execution moves it to COMPENSATING (and on to
\* COMPENSATED, the completed steps being compensated) if a step had
\* completed, and to CANCELLED otherwise; it is never left in RUNNING
C24_CancelCompensatesOrCancels ==
    engine.pc = "cancelled" =>
        IF execution.completed_steps # <<>>
        THEN /\ execution.status \in {COMPENSATING, COMPENSATED}
             /\ execution.status = COMPENSATED => CompensatedIds = ToCompensate
        ELSE execution.status = CANCELLED

\* C25: among the events emitted for one aggregate_id the version is strictly
\* increasing in the order of emission, so that no two of them share the pair
\* (aggregate_id, version)
C25_VersionsIncrease ==
    \A aggregate_id \in DOMAIN events :
        \A j, k \in 1..Len(events[aggregate_id]) :
            j < k => events[aggregate_id][j].version < events[aggregate_id][k].version

\* the workers that _handle_task was called on with the message of a task
Consumed(task_id) ==
    {worker_id \in DOMAIN workers : task_id \in DOMAIN workers[worker_id].handlers}

\* C26: with two or more AgentWorker processes subscribed to TASKS.created,
\* the message of a published task is consumed and executed by one worker
\* only: no two workers have _handle_task called with the same task.
C26_OneWorkerPerTask ==
    \A task_id \in PublishedTaskIds : Cardinality(Consumed(task_id)) <= 1

\* the executions of a worker that are inside _execute_task
InFlight(worker) ==
    {task_id \in DOMAIN worker.handlers :
        worker.handlers[task_id] \in {"_execute_task", "execute_task"}}

\* C27: in every reachable state of an AgentWorker at most `concurrency`
\* executions are inside _execute_task, and every permit that is not held by
\* one of them is back in the semaphore, whether the executions before
\* returned or raised.
C27_InFlightWithinConcurrency ==
    \A worker_id \in DOMAIN workers :
        /\ Cardinality(InFlight(workers[worker_id])) <= workers[worker_id].concurrency
        /\ workers[worker_id].semaphore =
             workers[worker_id].concurrency - Cardinality(InFlight(workers[worker_id]))

\* a worker whose permits are all taken while another message waits for one
C27_Witness ==
    \E worker_id \in DOMAIN workers :
        /\ workers[worker_id].semaphore = 0
        /\ InFlight(workers[worker_id]) # {}
        /\ \E task_id \in DOMAIN workers[worker_id].handlers :
               workers[worker_id].handlers[task_id] = "waiting"

\* the statuses of a stored task record that are final
TerminalStatuses == {"completed", "failed", "cancelled"}

\* C28: the status of the stored record of a task, once completed, failed or
\* cancelled, is never changed again, neither by a TASKS.started,
\* RESULTS.completed or RESULTS.failed message handled later nor by a cancel
\* request.
C28_TerminalStatusKept ==
    [][\A task_id \in DOMAIN redis :
          redis[task_id] \in TerminalStatuses => redis'[task_id] = redis[task_id]]_vars

\* the positions of the events of a type in the log of a task
PositionsOf(task_id, event_type) ==
    {k \in 1..Len(EventsOf(events, task_id)) : EventsOf(events, task_id)[k] = event_type}

\* C29: for every task of the Orchestrator task.created is emitted before
\* task.assigned, and task.assigned before the terminal task.completed or
\* task.failed, under every interleaving of submit_task, the dispatch loop
\* and complete_task and fail_task: every task.assigned follows a
\* task.created, and a terminal event follows a task.assigned and is
\* followed by none.
C29_CreatedAssignedTerminal ==
    \A task_id \in DOMAIN events :
        /\ \A a \in PositionsOf(task_id, "task.assigned") :
               \E c \in PositionsOf(task_id, "task.created") : c < a
        /\ \A t \in PositionsOf(task_id, "task.completed") \cup PositionsOf(task_id, "task.failed") :
               /\ PositionsOf(task_id, "task.assigned") # {}
               /\ \A a \in PositionsOf(task_id, "task.assigned") : a < t

\* the positions in the stream of the results of a task
ResultsOf(task_id) ==
    {k \in 1..Len(stream) :
        /\ stream[k].task_id = task_id
        /\ stream[k].subject \in {"RESULTS.completed", "RESULTS.failed"}}

\* the consumers that deliver results to the executor of a worker
ResultConsumers(worker_id) ==
    {durable \in DOMAIN consumers :
        /\ consumers[durable].handler = "_handle_task_result"
        /\ worker_id \in consumers[durable].subscribers}

\* while a future is pending every result of its task is still to be
\* delivered by a consumer of the worker that holds the future, and a future
\* is resolved only with a result that was published for its task
ResultOnItsWay ==
    \A worker_id \in DOMAIN executors :
        \A task_id \in DOMAIN executors[worker_id] :
            /\ executors[worker_id][task_id] = "pending" =>
                 \A k \in ResultsOf(task_id) :
                     \E durable \in ResultConsumers(worker_id) :
                         consumers[durable].delivered < k
            /\ executors[worker_id][task_id] = "result" =>
                 \E k \in ResultsOf(task_id) : stream[k].subject = "RESULTS.completed"
            /\ executors[worker_id][task_id] = "exception" =>
                 \E k \in ResultsOf(task_id) : stream[k].subject = "RESULTS.failed"

Pending(worker_id, task_id) ==
    /\ worker_id \in DOMAIN executors
    /\ task_id \in DOMAIN executors[worker_id]
    /\ executors[worker_id][task_id] = "pending"

FifoStep(old, new) ==
    \E taken \in 0..1 :
        /\ taken <= Len(old)
        /\ Len(new) >= Len(old) - taken
        /\ SubSeq(new, 1, Len(old) - taken) = SubSeq(old, taken + 1, Len(old))

\* the task the dispatch loop takes finds no agent
Unserved ==
    /\ TaskQueue_get(queues).task # None
    /\ find_agent(tasks[TaskQueue_get(queues).task]) = None

\* C31: tasks of the same priority are dequeued in the order in which they
\* were enqueued, and a task for which the dispatch loop finds no agent goes
\* back to the tail of the level of its own priority, with its priority,
\* status and retry_count unchanged.
C31_FifoAndRequeueAtTail ==
    [][/\ \A p \in Range(TaskPriority) : FifoStep(queues[p], queues'[p])
       /\ (Unserved /\ dispatch_loop) =>
            LET t == TaskQueue_get(queues).task
            IN  /\ tasks' = tasks
                /\ queues' = [queues EXCEPT
                       ![tasks[t].priority] = Append(Tail(@), t)]]_vars

\* the first task submitted stands behind the second one of its priority
\* without a retry: the dispatch loop found no agent for it and put it back
C31_Witness ==
    \E p \in Range(TaskPriority) :
        /\ queues[p] = <<2, 1>>
        /\ tasks[1].priority = p
        /\ tasks[1].status = QUEUED
        /\ tasks[1].retry_count = 0

\* the instances a step of the dispatch loop gives a task to
Picked == {i \in DOMAIN instances :
              instances[i].current_task_id = None /\ instances'[i].current_task_id # None}

\* the candidates of _find_agent for the task the dispatch loop takes
CandidateSet ==
    {j \in Range(agents) : is_candidate(tasks[TaskQueue_get(queues).task], j)}

\* total_execution_time_ms / tasks_completed of a is below that of b
FasterThan(a, b) ==
    a.total_execution_time_ms * b.tasks_completed
        < b.total_execution_time_ms * a.tasks_completed

SameAverage(a, b) ==
    IF a.tasks_completed = 0 \/ b.tasks_completed = 0
    THEN a.tasks_completed = b.tasks_completed
    ELSE ~FasterThan(a, b) /\ ~FasterThan(b, a)

\* C32: among the candidates for a task the dispatch loop picks one with the
\* least total_execution_time_ms / tasks_completed; one without a completion
\* is picked only when no candidate has a completion; among candidates with
\* equal averages the one with the smallest instance id is picked.
C32_PicksFastestThenSmallestId ==
    [][\A i \in Picked : \A j \in CandidateSet :
          /\ (instances[i].tasks_completed > 0 /\ instances[j].tasks_completed > 0)
                => ~FasterThan(instances[j], instances[i])
          /\ instances[i].tasks_completed = 0 => instances[j].tasks_completed = 0
          /\ SameAverage(instances[i], instances[j]) => i <= j]_vars

\* 1 + retry_count, retry_count from the config of the tool or, when that is
\* 0, the max_retries of the executor
AttemptsAllowed(name) ==
    1 + (IF registry[name].retry_count # 0 THEN registry[name].retry_count
         ELSE executor_max_retries)

\* the attempts that succeed among those allowed
Successful(name, outcomes) == {k \in 1..AttemptsAllowed(name) : outcomes[k] = "ok"}

\* C33: for one ToolCall, ToolExecutor.execute invokes the tool at most
\* 1 + retry_count times, stops at the first attempt that succeeds and returns
\* success=true, and returns success=false with the last error only after all
\* attempts have failed.
C33_AtMostRetryCountRetries ==
    [][\A name \in ToolNames, outcomes \in [1..(1 + MaxToolRetries) -> Outcomes] :
          (name \in DOMAIN registry /\ execute(name, outcomes)) =>
              /\ Len(invocations') <= AttemptsAllowed(name)
              /\ \A k \in 1..Len(invocations') : invocations'[k] = name
              /\ IF Successful(name, outcomes) # {}
                 THEN /\ tool_result'.success = TRUE
                      /\ Len(invocations') \in Successful(name, outcomes)
                      /\ \A k \in Successful(name, outcomes) : Len(invocations') <= k
                 ELSE /\ tool_result'.success = FALSE
                      /\ Len(invocations') = AttemptsAllowed(name)
                      /\ tool_result'.error =
                           JString(error_of(outcomes[AttemptsAllowed(name)]))]_vars

\* a tool was invoked twice, the retry succeeded
C33_Witness ==
    /\ tool_result # null
    /\ tool_result.success = TRUE
    /\ Len(invocations) = 2
    /\ tool_result.name \in DOMAIN registry
    /\ AttemptsAllowed(tool_result.name) = 2

\* C34: ToolExecutor.execute retries only after a timeout or a transient
\* error: when the invocation fails because the arguments do not fit the
\* parameters of the tool, the tool is invoked once whatever retry_count is.
C34_InvalidArgumentsNotRetried ==
    [][\A name \in ToolNames :
          (/\ name \in DOMAIN registry
           /\ execute(name, [k \in 1..(1 + MaxToolRetries) |-> "invalid arguments"]))
          => Len(invocations') = 1]_vars

\* the children of a step that a step of the engine starts
ChildrenStarted(step) ==
    {k \in 1..Len(step.children) :
        \E n \in (Len(started) + 1)..Len(started') :
            started'[n] = step.children[k].step_id}

\* the child a CONDITIONAL step selects: 1 for children[0], 2 for children[1]
Selected(holds) == IF holds THEN 1 ELSE 2

\* C35: a CONDITIONAL step runs children[0] and no other child when its
\* condition evaluates true, children[1] and no other child when it evaluates
\* false, and when the selected child is missing it runs no child and
\* succeeds.
C35_ConditionalRunsSelectedChild ==
    [][\/ engine.pc # "loop"
       \/ engine.index > Len(workflow.steps)
       \/ workflow.steps[engine.index].step_type # CONDITIONAL
       \/ ~dependencies_satisfied(workflow.steps[engine.index], execution)
       \/ LET step == workflow.steps[engine.index]
          IN  \A outcome \in [working(step) -> StepOutcomes], holds \in BOOLEAN :
                  WorkflowEngine_step(outcome, [id \in {step.step_id} |-> holds]) =>
                      IF Selected(holds) <= Len(step.children)
                      THEN ChildrenStarted(step) = {Selected(holds)}
                      ELSE /\ ChildrenStarted(step) = {}
                           /\ started' = Append(started, step.step_id)
                           /\ execution'.completed_steps =
                                  Append(execution.completed_steps, step.step_id)
                           /\ execution'.status = RUNNING]_vars

\* a CONDITIONAL step with two children whose condition was false: the
\* second child was started and the first was not
C35_Witness ==
    \E k \in 1..Len(workflow.steps) :
        /\ workflow.steps[k].step_type = CONDITIONAL
        /\ Len(workflow.steps[k].children) = 2
        /\ workflow.steps[k].children[2].step_id \in Range(started)
        /\ workflow.steps[k].children[1].step_id \notin Range(started)

\* C36: after AgentRuntime.stop(graceful=False) is invoked while execute_task
\* is under way, the status is TERMINATED and stays TERMINATED: the execution
\* that was under way never sets it to IDLE or ERROR afterwards.
C36_ForcedStopStaysTerminated ==
    [][(runtime.status = TERMINATED /\ frame.pc # "idle")
          => runtime'.status = TERMINATED]_vars

\* C37: AgentWorker.stop closes the connections only after every execution
\* that was in flight when stop was called has finished and published its
\* result: no execution is inside _execute_task when the connection closes.
C37_ClosesAfterInFlightFinished ==
    [][\A worker_id \in DOMAIN workers :
          (workers[worker_id].nats = "connected" /\ workers'[worker_id].nats = "closed")
              => InFlight(workers[worker_id]) = {}]_vars

\* C38: every call of WorkflowEngine.execute that returns leaves the execution
\* in a terminal status, COMPLETED or COMPENSATED, and never in RUNNING, FAILED
\* or COMPENSATING, whatever the task executor gave for each step
C38_ReturnsInTerminalStatus ==
    engine.pc = "returned" => execution.status \in {COMPLETED, COMPENSATED}

\* C39: when WorkflowEngine.execute ends with status COMPLETED, every
\* top-level step of the definition is in completed_steps (none was skipped for
\* an unsatisfied depends_on) and no step failed
C39_CompletedMeansEveryStepCompleted ==
    (engine.pc = "returned" /\ execution.status = COMPLETED)
        => /\ TopLevel(workflow) \subseteq Range(execution.completed_steps)
           /\ ~SomeStepFailed

\* the instances whose current_task_id is the task, and the places the task
\* takes in the priority queue
HoldersOf(task_id) ==
    {instance_id \in DOMAIN instances : instances[instance_id].current_task_id = task_id}
PlacesOf(task_id) ==
    {<<p, k>> \in Range(TaskPriority) \X (1..(2 * NumTasks + 2)) :
        k <= Len(queues[p]) /\ queues[p][k] = task_id}

\* C40: at any time a task is the current_task_id of at most one agent
\* instance and occurs at most once in the priority queue, whatever the
\* interleaving of submit_task, the dispatch loop, fail_task and complete_task
C40_TaskHeldOnceQueuedOnce ==
    \A task_id \in DOMAIN tasks :
        /\ Cardinality(HoldersOf(task_id)) <= 1
        /\ Cardinality(PlacesOf(task_id)) <= 1

============================================================================
